---- MODULE Spec2Model ----
(***************************************************************************)
(* Model of the filament ledger (src/utils/db_handler.py), of the price    *)
(* calculator (src/utils/price_calculator.py) and of the calculator's      *)
(* commit (src/tabs/calculator_tab.py, execute_print) of the 3D print      *)
(* manager.                                                                *)
(*                                                                         *)
(* The three JSON documents are the sequences brands, filaments and        *)
(* prints.  Every ledger function is an operator from the stored lists and *)
(* its arguments to the lists it leaves on disk and what it returns or     *)
(* raises; every action applies one such operator to the stored state.     *)
(* Weights in the ledger are whole grams (Python int).  A record's         *)
(* print_name and timestamp are free text no operation reads, and are left *)
(* out of the records.                                                     *)
(***************************************************************************)
EXTENDS Integers, Sequences, FiniteSets, TLC

\* ---------------------------------------------------------------- bounds
MaxWeight == 2       \* largest net weight of a spool and largest gram argument
MaxFilaments == 2    \* filament uuids issued in one behaviour
MaxPrints == 2       \* print uuids issued by the ledger calls of one behaviour,
                     \* and commits that may still start once that many exist
MaxBrands == 2       \* brand uuids issued in one behaviour
MaxObjects == 3      \* uuids of all kinds issued in one behaviour of the
                     \* whole inventory (SpecInventory) and of the failing
                     \* writes (SpecSaving)
MaxFiles == 2        \* G-code files listed in the calculator at once
UnitsPerGram == 2    \* a weight read from a G-code file is a multiple of
                     \* 1/UnitsPerGram gram
MaxLines == 2        \* lines of a G-code file handed to the parser
MaxCallers == 2      \* add_print calls that run at once
MaxStock == 3        \* net weight of the two spools in stock when files are
                     \* saved separately (SpecSeparate)
MaxSlots == 2        \* slots of a multi-filament job whose price is calculated

\* ------------------------------------------------------ program constants
DefaultSpoolWeight == 150

\* Python's None, for an id or a weight argument that was not passed.
None == -1
\* A price is an exact rational <<numerator, denominator>>; None has
\* denominator 0.
NonePrice == <<0, 0>>

VARIABLES
    brands,      \* brands.json:    Seq of [id, name, spool_weight]
    filaments,   \* filaments.json: Seq of [id, brand, initial_weight, current_weight, spool_weight]
    prints,      \* prints.json:    Seq of [id, filament_id, weight_used, price, gcode_file]
    brand_uuids,     \* number of brand ids uuid4() has handed out
    filament_uuids,  \* number of filament ids uuid4() has handed out
    print_uuids,     \* number of print ids uuid4() has handed out
    last,        \* the last call: its arguments and what it returned or raised
    \* CalculatorTab (src/tabs/calculator_tab.py)
    gcode_list,                   \* Seq of listed files (see ListableFiles)
    save_separately_checkbox,     \* BOOLEAN
    current_filament_id,          \* a filament id or None
    current_multicolor_filaments, \* Seq of [filament, weight]: the filament as
                                  \* read when it was chosen, the slot's weight
    file_filament_mapping,        \* Seq of [filename, filaments]: a dict, in
                                  \* insertion order
    filament_weight_input,        \* the text as a number of 1/10 g, None if empty
    print_time_input,             \* the text as a number of hours, None if empty
    current_price_result,         \* the result's final_price, NonePrice if None
    \* add_print calls in progress (src/utils/db_handler.py)
    add_print_calls               \* per caller: where it stands in add_print and
                                  \* the lists it has loaded

ledger == <<brands, filaments, prints, brand_uuids, filament_uuids, print_uuids>>
calculator == <<gcode_list, save_separately_checkbox, current_filament_id,
                current_multicolor_filaments, file_filament_mapping,
                filament_weight_input, print_time_input, current_price_result>>
vars == <<ledger, last, calculator, add_print_calls>>

\* ------------------------------------------------------------- helpers

\* str.upper() on the names the model uses.
Upper(s) ==
    CASE s = "prusa" -> "PRUSA"
      [] s = "esun" -> "ESUN"
      [] s = "Prusa" -> "PRUSA"
      [] s = "eSun" -> "ESUN"
      [] OTHER -> s

\* Index of the first element of a stored list with the given id, 0 if none:
\* the loop "for i, x in enumerate(xs): if x['id'] == id".
find_by_id(xs, id) ==
    IF \E i \in 1..Len(xs) : xs[i].id = id
    THEN CHOOSE i \in 1..Len(xs) :
            /\ xs[i].id = id
            /\ \A j \in 1..(i - 1) : xs[j].id # id
    ELSE 0

\* "for i, filament in enumerate(filaments): if filament['id'] == id:
\*      filaments[i]['current_weight'] += delta; save; break"
adjust_weight(fs, filament_id, delta) ==
    LET i == find_by_id(fs, filament_id) IN
    IF i = 0 THEN fs
    ELSE [fs EXCEPT ![i].current_weight = @ + delta]

get_spool_weight(bs, brand_name) ==
    IF \E i \in 1..Len(bs) : bs[i].name = brand_name
    THEN LET i == CHOOSE k \in 1..Len(bs) :
                    /\ bs[k].name = brand_name
                    /\ \A j \in 1..(k - 1) : bs[j].name # brand_name
         IN bs[i].spool_weight
    ELSE DefaultSpoolWeight

\* ------------------------------------------------------ ledger functions

\* Some stored brand has this name, ignoring case.
name_taken(bs, name) == \E i \in 1..Len(bs) : Upper(bs[i].name) = Upper(name)

\* An add_brand that compares the names as they are written.
add_brand_case_sensitive(bs, new_id, name, spool_weight) ==
    IF \E i \in 1..Len(bs) : bs[i].name = name
    THEN [raised |-> "already_exists", brands |-> bs]
    ELSE [raised |-> "",
          brands |-> Append(bs, [id |-> new_id, name |-> Upper(name),
                                 spool_weight |-> spool_weight])]

\* add_brand: raised is "" on success.
add_brand(bs, new_id, name, spool_weight) ==
    IF name_taken(bs, name)
    THEN [raised |-> "already_exists", brands |-> bs]
    ELSE [raised |-> "",
          brands |-> Append(bs, [id |-> new_id, name |-> Upper(name),
                                 spool_weight |-> spool_weight])]

update_brand(bs, brand_id, name, spool_weight) ==
    LET brand_index == find_by_id(bs, brand_id) IN
    IF brand_index = 0 THEN [raised |-> "not_found", brands |-> bs]
    ELSE IF \E i \in 1..Len(bs) : i # brand_index /\ Upper(bs[i].name) = Upper(name)
    THEN [raised |-> "already_exists", brands |-> bs]
    ELSE [raised |-> "",
          brands |-> [bs EXCEPT ![brand_index] =
                         [id |-> bs[brand_index].id, name |-> Upper(name),
                          spool_weight |-> spool_weight]]]

\* delete_brand: ret is what it returns, raised is "" unless it raises.
delete_brand(bs, fs, brand_id) ==
    LET i == find_by_id(bs, brand_id) IN
    IF i = 0 THEN [ret |-> FALSE, raised |-> "", brands |-> bs]
    ELSE IF \E k \in 1..Len(fs) : Upper(fs[k].brand) = Upper(bs[i].name)
    THEN [ret |-> FALSE, raised |-> "in_use", brands |-> bs]
    ELSE [ret |-> TRUE, raised |-> "",
          brands |-> SelectSeq(bs, LAMBDA b : b.id # brand_id)]

\* add_filament: raised is "" on success.
add_filament(bs, fs, new_id, brand, initial_weight, without_spool) ==
    LET spool_weight == get_spool_weight(bs, brand)
        net_weight == IF without_spool THEN initial_weight
                      ELSE initial_weight - spool_weight
    IN  IF ~without_spool /\ net_weight <= 0
        THEN [raised |-> "weight_too_small", filaments |-> fs]
        ELSE [raised |-> "",
              filaments |-> Append(fs,
                  [id |-> new_id,
                   brand |-> Upper(brand),
                   initial_weight |-> net_weight,
                   current_weight |-> net_weight,
                   spool_weight |-> IF without_spool THEN 0 ELSE spool_weight])]

Max(a, b) == IF a >= b THEN a ELSE b

update_filament(bs, fs, filament_id, brand, initial_weight, without_spool) ==
    LET i == find_by_id(fs, filament_id)
        spool_weight == get_spool_weight(bs, brand)
        net_weight == IF without_spool THEN initial_weight
                      ELSE initial_weight - spool_weight
    IN  IF i = 0 THEN [raised |-> "not_found", filaments |-> fs]
        ELSE IF ~without_spool /\ net_weight <= 0
        THEN [raised |-> "weight_too_small", filaments |-> fs]
        ELSE LET weight_difference == net_weight - fs[i].initial_weight
                 new_current_weight == fs[i].current_weight + weight_difference
             IN [raised |-> "",
                 filaments |-> [fs EXCEPT ![i] =
                     [id |-> fs[i].id,
                      brand |-> Upper(brand),
                      initial_weight |-> net_weight,
                      current_weight |-> Max(0, new_current_weight),
                      spool_weight |-> IF without_spool THEN 0 ELSE spool_weight]]]

delete_filament(fs, filament_id) ==
    LET kept == SelectSeq(fs, LAMBDA f : f.id # filament_id) IN
    IF Len(kept) < Len(fs)
    THEN [ret |-> TRUE, filaments |-> kept]
    ELSE [ret |-> FALSE, filaments |-> fs]

\* A consume that does not compare the grams with what the filament holds.
consume_unchecked(fs, filament_id, weight_used) ==
    LET i == find_by_id(fs, filament_id) IN
    IF i = 0 THEN [ret |-> FALSE, filaments |-> fs]
    ELSE [ret |-> TRUE,
          filaments |-> [fs EXCEPT ![i].current_weight = @ - weight_used]]

update_filament_weight(fs, filament_id, weight_used) ==
    LET i == find_by_id(fs, filament_id) IN
    IF i = 0 THEN [ret |-> FALSE, filaments |-> fs]
    ELSE IF fs[i].current_weight < weight_used
    THEN [ret |-> FALSE, filaments |-> fs]
    ELSE [ret |-> TRUE,
          filaments |-> [fs EXCEPT ![i].current_weight = @ - weight_used]]

\* An add_print that appends the record and deducts nothing.
add_print_record_only(fs, ps, new_id, filament_id, weight_used, price, gcode_file) ==
    LET i == find_by_id(fs, filament_id)
        unchanged == [filaments |-> fs, prints |-> ps,
                      available |-> None, requested |-> None]
    IN  IF i = 0 THEN [raised |-> "not_found"] @@ unchanged
        ELSE IF fs[i].current_weight < weight_used
        THEN [raised |-> "insufficient", filaments |-> fs, prints |-> ps,
              available |-> fs[i].current_weight, requested |-> weight_used]
        ELSE [raised |-> "",
              filaments |-> fs,
              prints |-> Append(ps,
                  [id |-> new_id,
                   filament_id |-> filament_id,
                   weight_used |-> weight_used,
                   price |-> price,
                   gcode_file |-> gcode_file]),
              available |-> None, requested |-> None]

\* An add_print that leaves the comparison of the grams to
\* update_filament_weight.
add_print_unchecked(fs, ps, new_id, filament_id, weight_used, price, gcode_file) ==
    LET i == find_by_id(fs, filament_id)
        unchanged == [filaments |-> fs, prints |-> ps,
                      available |-> None, requested |-> None]
        u == update_filament_weight(fs, filament_id, weight_used)
    IN  IF i = 0 THEN [raised |-> "not_found"] @@ unchanged
        ELSE IF ~u.ret THEN [raised |-> "update_failed"] @@ unchanged
        ELSE [raised |-> "",
              filaments |-> u.filaments,
              prints |-> Append(ps,
                  [id |-> new_id,
                   filament_id |-> filament_id,
                   weight_used |-> weight_used,
                   price |-> price,
                   gcode_file |-> gcode_file]),
              available |-> None, requested |-> None]

\* add_print: raised is "" on success; an insufficient-weight error carries
\* the available and the requested grams (its message).
add_print(fs, ps, new_id, filament_id, weight_used, price, gcode_file) ==
    LET i == find_by_id(fs, filament_id)
        unchanged == [filaments |-> fs, prints |-> ps,
                      available |-> None, requested |-> None]
    IN  IF i = 0 THEN [raised |-> "not_found"] @@ unchanged
        ELSE IF fs[i].current_weight < weight_used
        THEN [raised |-> "insufficient", filaments |-> fs, prints |-> ps,
              available |-> fs[i].current_weight, requested |-> weight_used]
        ELSE LET u == update_filament_weight(fs, filament_id, weight_used) IN
             IF ~u.ret
             THEN [raised |-> "update_failed", filaments |-> u.filaments,
                   prints |-> ps, available |-> None, requested |-> None]
             ELSE [raised |-> "",
                   filaments |-> u.filaments,
                   prints |-> Append(ps,
                       [id |-> new_id,
                        filament_id |-> filament_id,
                        weight_used |-> weight_used,
                        price |-> price,
                        gcode_file |-> gcode_file]),
                   available |-> None, requested |-> None]

\* A delete_print that never gives the grams back.
delete_print_keeping_weight(fs, ps, print_id, restore_weight) ==
    LET i == find_by_id(ps, print_id) IN
    IF i = 0 THEN [ret |-> FALSE, filaments |-> fs, prints |-> ps]
    ELSE [ret |-> TRUE, filaments |-> fs,
          prints |-> SelectSeq(ps, LAMBDA p : p.id # print_id)]

\* A delete_print that gives the grams back whatever restore_weight says.
delete_print_always_restoring(fs, ps, print_id, restore_weight) ==
    LET i == find_by_id(ps, print_id) IN
    IF i = 0 THEN [ret |-> FALSE, filaments |-> fs, prints |-> ps]
    ELSE [ret |-> TRUE,
          filaments |-> IF ps[i].filament_id # None /\ ps[i].weight_used > 0
                        THEN adjust_weight(fs, ps[i].filament_id, ps[i].weight_used)
                        ELSE fs,
          prints |-> SelectSeq(ps, LAMBDA p : p.id # print_id)]

\* A delete_print that takes the grams of the record once more.
delete_print_deducting(fs, ps, print_id, restore_weight) ==
    LET i == find_by_id(ps, print_id) IN
    IF i = 0 THEN [ret |-> FALSE, filaments |-> fs, prints |-> ps]
    ELSE [ret |-> TRUE,
          filaments |-> adjust_weight(fs, ps[i].filament_id, 0 - ps[i].weight_used),
          prints |-> SelectSeq(ps, LAMBDA p : p.id # print_id)]

delete_print(fs, ps, print_id, restore_weight) ==
    LET i == find_by_id(ps, print_id) IN
    IF i = 0 THEN [ret |-> FALSE, filaments |-> fs, prints |-> ps]
    ELSE LET filament_id == ps[i].filament_id
             weight_used == ps[i].weight_used
         IN [ret |-> TRUE,
             filaments |-> IF restore_weight /\ filament_id # None /\ weight_used > 0
                           THEN adjust_weight(fs, filament_id, weight_used)
                           ELSE fs,
             prints |-> SelectSeq(ps, LAMBDA p : p.id # print_id)]

\* An update_print step that gives nothing back, or takes nothing back.
weights_kept(fs, old_filament_id, old_weight_used) == fs
weights_left(fs, old_filament_id, old_weight_used) == fs

\* update_print, lines 573-579: the old record's grams go back to its filament.
restore_old(fs, old_filament_id, old_weight_used) ==
    IF old_filament_id # None /\ old_weight_used > 0
    THEN adjust_weight(fs, old_filament_id, old_weight_used)
    ELSE fs

\* update_print, lines 585-591, 602-608 and 618-624: on an error the
\* restoration is taken back.
roll_back(fs, old_filament_id, old_weight_used) ==
    IF old_filament_id # None /\ old_weight_used > 0
    THEN adjust_weight(fs, old_filament_id, 0 - old_weight_used)
    ELSE fs

\* update_print: ret is the returned bool (FALSE: record unknown), raised the
\* error; filament_id, weight_used and price may be None / NonePrice.
update_print(fs, ps, print_id, filament_id, weight_used, price) ==
    LET print_index == find_by_id(ps, print_id) IN
    IF print_index = 0
    THEN [ret |-> FALSE, raised |-> "", filaments |-> fs, prints |-> ps,
          available |-> None, requested |-> None]
    ELSE
    LET old_print == ps[print_index]
        old_filament_id == old_print.filament_id
        old_weight_used == old_print.weight_used
        new_filament_id == IF filament_id # None THEN filament_id ELSE old_filament_id
        new_weight_used == IF weight_used # None THEN weight_used ELSE old_weight_used
        new_price == IF price # NonePrice THEN price ELSE old_print.price
        restored == restore_old(fs, old_filament_id, old_weight_used)
        rolled_back == roll_back(restored, old_filament_id, old_weight_used)
        new_index == find_by_id(restored, new_filament_id)
        available_weight ==
            IF old_filament_id = new_filament_id
            THEN restored[new_index].current_weight + old_weight_used
            ELSE restored[new_index].current_weight
        u == update_filament_weight(restored, new_filament_id, new_weight_used)
        updated == [ps EXCEPT ![print_index] =
                      [id |-> old_print.id,
                       filament_id |-> new_filament_id,
                       weight_used |-> new_weight_used,
                       price |-> new_price,
                       gcode_file |-> old_print.gcode_file]]
        none == [available |-> None, requested |-> None]
    IN  IF old_filament_id # new_filament_id \/ old_weight_used # new_weight_used
        THEN IF new_index = 0
             THEN [ret |-> FALSE, raised |-> "not_found",
                   filaments |-> rolled_back, prints |-> ps] @@ none
             ELSE IF available_weight < new_weight_used
             THEN [ret |-> FALSE, raised |-> "insufficient",
                   filaments |-> rolled_back, prints |-> ps,
                   available |-> available_weight, requested |-> new_weight_used]
             ELSE IF ~u.ret
             THEN [ret |-> FALSE, raised |-> "update_failed",
                   filaments |-> roll_back(u.filaments, old_filament_id,
                                           old_weight_used),
                   prints |-> ps] @@ none
             ELSE [ret |-> TRUE, raised |-> "",
                   filaments |-> u.filaments, prints |-> updated] @@ none
        ELSE [ret |-> TRUE, raised |-> "", filaments |-> fs, prints |-> updated] @@ none

\* -------------------------------------------------------- failing writes

\* _save_json re-raises what open() or json.dump() raised.  In the operators
\* below, failing names the document ("filaments" or "prints") that cannot be
\* written during the call, "" if every write succeeds; a write that fails
\* leaves the document as it was (open() raised), and the exception leaves
\* the function at that line.  raised is then "write_failed".

add_print_saving(fs, ps, new_id, filament_id, weight_used, price, gcode_file, failing) ==
    LET r == add_print(fs, ps, new_id, filament_id, weight_used, price, gcode_file)
        failed == [raised |-> "write_failed", available |-> None, requested |-> None]
    IN  IF r.raised # "" \/ failing = "" THEN r
        \* update_filament_weight, line 375
        ELSE IF failing = "filaments"
        THEN [filaments |-> fs, prints |-> ps] @@ failed
        \* line 431, after update_filament_weight has saved
        ELSE [filaments |-> r.filaments, prints |-> ps] @@ failed

delete_print_saving(fs, ps, print_id, restore_weight, failing) ==
    LET r == delete_print(fs, ps, print_id, restore_weight)
        i == find_by_id(ps, print_id)
        restores == /\ restore_weight
                    /\ ps[i].filament_id # None
                    /\ ps[i].weight_used > 0
                    /\ find_by_id(fs, ps[i].filament_id) # 0
    IN  IF i = 0 \/ failing = "" THEN r @@ [raised |-> ""]
        \* line 496
        ELSE IF failing = "filaments"
        THEN IF restores
             THEN [ret |-> FALSE, raised |-> "write_failed", filaments |-> fs, prints |-> ps]
             ELSE r @@ [raised |-> ""]
        \* line 503, after the restored weight was saved
        ELSE [ret |-> FALSE, raised |-> "write_failed",
              filaments |-> r.filaments, prints |-> ps]

update_print_saving(fs, ps, print_id, filament_id, weight_used, price, failing) ==
    LET r == update_print(fs, ps, print_id, filament_id, weight_used, price)
        i == find_by_id(ps, print_id)
        old_filament_id == ps[i].filament_id
        old_weight_used == ps[i].weight_used
        new_filament_id == IF filament_id # None THEN filament_id ELSE old_filament_id
        new_weight_used == IF weight_used # None THEN weight_used ELSE old_weight_used
        reconsumes == old_filament_id # new_filament_id \/ old_weight_used # new_weight_used
        restores == /\ old_filament_id # None
                    /\ old_weight_used > 0
                    /\ find_by_id(fs, old_filament_id) # 0
        failed == [ret |-> FALSE, raised |-> "write_failed",
                   available |-> None, requested |-> None]
    IN  IF i = 0 \/ failing = "" THEN r
        ELSE IF failing = "filaments"
        THEN IF ~reconsumes THEN r
             \* line 578
             ELSE IF restores THEN [filaments |-> fs, prints |-> ps] @@ failed
             \* nothing was restored, so nothing is rolled back: the errors of
             \* lines 592, 609 and 625 are raised as they are
             ELSE IF r.raised # "" THEN r
             \* update_filament_weight, line 375
             ELSE [filaments |-> fs, prints |-> ps] @@ failed
        \* line 635, after the weights were saved; the errors before it write
        \* only the filaments
        ELSE IF r.raised # "" THEN r
        ELSE [filaments |-> r.filaments, prints |-> ps] @@ failed

\* ---------------------------------------------------- exact arithmetic

RECURSIVE GCD(_, _)
GCD(a, b) == IF b = 0 THEN a ELSE GCD(b, a % b)

\* Prices are Python floats; the model computes them exactly, as the rational
\* n/d in lowest terms (d > 0), so that rounding error plays no part.
Rat(n, d) == <<n \div GCD(n, d), d \div GCD(n, d)>>
\* (Common factors are taken out before multiplying, to keep the integers
\* small.)
RatAdd(p, q) ==
    LET g == GCD(p[2], q[2]) IN
    Rat(p[1] * (q[2] \div g) + q[1] * (p[2] \div g), (p[2] \div g) * q[2])
\* (n / d) * p
RatScale(p, n, d) == Rat(p[1] * n, p[2] * d)
Zero == Rat(0, 1)

\* round(n / d) for d > 0, ties to even: Python's round(), and what
\* f"{x:.1f}" does to the tenths of x.
RoundHalfEven(n, d) ==
    LET q == n \div d
        r == n % d
    IN  IF 2 * r < d THEN q
        ELSE IF 2 * r > d THEN q + 1
        ELSE IF q % 2 = 0 THEN q ELSE q + 1

\* f"{weight:.1f}" of a weight of u/UnitsPerGram grams, as tenths of a gram.
FormatTenths(u) == RoundHalfEven(10 * u, UnitsPerGram)

\* ------------------------------------------------------- PriceCalculator
\* (src/utils/price_calculator.py). Every amount is an exact rational <<n, d>>
\* with d > 0; n may be negative.

RatSub(p, q) == RatAdd(p, <<0 - q[1], q[2]>>)
RatMul(p, q) ==
    LET g == GCD(p[1], q[2])
        h == GCD(q[1], p[2])
    IN  Rat((p[1] \div g) * (q[1] \div h), (p[2] \div h) * (q[2] \div g))
\* p / q for q > 0
RatDiv(p, q) == RatMul(p, <<q[2], q[1]>>)
RatLess(p, q) == RatSub(p, q)[1] < 0
RatLeq(p, q) == RatSub(p, q)[1] <= 0
One == Rat(1, 1)
Hundred == Rat(100, 1)
Thousand == Rat(1000, 1)
Sixty == Rat(60, 1)

\* A material cost that is credited instead of charged.
material_cost_credited(filament_weight_g, material_price_per_kg, copies) ==
    RatDiv(RatMul(RatMul(filament_weight_g, copies), RatSub(Zero, material_price_per_kg)), Thousand)

calculate_material_cost(filament_weight_g, material_price_per_kg, copies) ==
    LET weight_kg == RatDiv(RatMul(filament_weight_g, copies), Thousand)
    IN  RatMul(weight_kg, material_price_per_kg)

calculate_printer_time_cost(print_time_hours, hourly_rate, preheat_time_minutes, copies) ==
    LET preheat_hours == RatDiv(preheat_time_minutes, Sixty)
        total_time == RatMul(RatAdd(print_time_hours, preheat_hours), copies)
    IN  RatMul(total_time, hourly_rate)

calculate_energy_cost(energy_consumption_kwh, cost_per_kwh) ==
    RatMul(energy_consumption_kwh, cost_per_kwh)

calculate_postprocess_cost(postprocess_time_hours, rate_per_hour) ==
    RatMul(postprocess_time_hours, rate_per_hour)

\* A risk factor that is never applied.
risk_factor_ignored(base_cost, risk_percent) == base_cost

apply_risk_factor(base_cost, risk_percent) ==
    RatMul(base_cost, RatAdd(One, RatDiv(risk_percent, Hundred)))

\* A rounding that always rounds the quotient down.
round_price_down(price, round_to) ==
    IF round_to[1] <= 0 THEN price
    ELSE LET quotient == RatDiv(price, round_to)
         IN  RatMul(Rat(quotient[1] \div quotient[2], 1), round_to)

\* round(price / round_to) * round_to; Python's round() takes a tie to the
\* even integer.
round_price(price, round_to) ==
    IF round_to[1] <= 0 THEN price
    ELSE LET quotient == RatDiv(price, round_to)
         IN  RatMul(Rat(RoundHalfEven(quotient[1], quotient[2]), 1), round_to)

\* A price floor that is never applied.
min_price_ignored(price, min_price) == price

\* The minimum price of calculate_price: a positive min_price above the price
\* replaces it.
apply_min_price(price, min_price) ==
    IF min_price[1] > 0 /\ RatLess(price, min_price) THEN min_price ELSE price

\* calculate_price; a holds the arguments under their names, the result
\* holds the breakdown under its keys.
calculate_price(a) ==
    LET material_cost == calculate_material_cost(a.filament_weight_g,
                                                 a.material_price_per_kg, a.copies)
        time_cost == calculate_printer_time_cost(a.print_time_hours, a.hourly_rate,
                                                 Zero, a.copies)
        energy_cost == calculate_energy_cost(a.energy_consumption_kwh, a.cost_per_kwh)
        postprocess_cost == calculate_postprocess_cost(a.postprocess_time_hours,
                                                       a.postprocess_rate_per_hour)
        subtotal == RatAdd(RatAdd(RatAdd(RatAdd(material_cost, time_cost),
                                         energy_cost), postprocess_cost), a.setup_fee)
        risk_adjusted_cost == apply_risk_factor(subtotal, a.risk_percent)
        risk_amount == RatSub(risk_adjusted_cost, subtotal)
        margin_amount == RatMul(risk_adjusted_cost, RatDiv(a.margin_percent, Hundred))
        price_before_packaging == RatAdd(risk_adjusted_cost, margin_amount)
        with_shipping == RatAdd(RatAdd(price_before_packaging, a.packaging_cost),
                                a.shipping_cost)
        clamped == apply_min_price(with_shipping, a.min_price)
        price_before_vat == round_price(clamped, a.round_to)
        vat_amount == IF a.vat_percent[1] > 0
                      THEN RatMul(price_before_vat, RatDiv(a.vat_percent, Hundred))
                      ELSE Zero
    IN  [material_cost |-> material_cost,
         time_cost |-> time_cost,
         energy_cost |-> energy_cost,
         postprocess_cost |-> postprocess_cost,
         setup_fee |-> a.setup_fee,
         subtotal |-> subtotal,
         risk_amount |-> risk_amount,
         risk_adjusted_cost |-> risk_adjusted_cost,
         margin_amount |-> margin_amount,
         price_before_packaging |-> price_before_packaging,
         packaging_cost |-> a.packaging_cost,
         shipping_cost |-> a.shipping_cost,
         price_before_vat |-> price_before_vat,
         vat_amount |-> vat_amount,
         final_price |-> RatAdd(price_before_vat, vat_amount)]

\* ----------------------------------------------------------- GCodeParser
\* (src/utils/gcode_parser.py). A file is a name, whether it can be opened, and
\* its content as a sequence of lines; times are hours and weights grams, as
\* exact rationals.

\* The lines a file is made of.
Lines ==
    {";TIME:5400",
     "; estimated printing time (normal mode) = 1h 30m 15s",
     "; estimated printing time = 2h 0m 30s",
     ";TIME_ELAPSED:1.2.3",
     "; total filament weight [g] : 30.98,1.12",
     "; filament used [g] = 35.79",
     ";Filament used: 2.0m",
     "; filament_type = PETG",
     "print_time: 20000",
     ";TIME:0",
     ";Weight: 1.2.3 g"}

\* The file names.
FileNames ==
    {"part.gcode",
     "part_2h36m.gcode",
     "part.bgcode",
     "part_2h36m.bgcode"}

\* The pattern lists of parse_gcode, as the regular expressions of the source.
\* Lines 93-98
binary_time_patterns ==
    <<"estimated printing time \\(normal mode\\)\\s*=\\s*(?:(\\d+)h\\s*)?(?:(\\d+)m\\s*)?(?:(\\d+)s)?",
     "estimated printing time\\s*=\\s*(?:(\\d+)h\\s*)?(?:(\\d+)m\\s*)?(?:(\\d+)s)?",
     "print_time\\s*[:=]\\s*(\\d+)",
     "time\\s*[:=]\\s*(\\d+)">>

\* Lines 123-130
binary_filament_patterns ==
    <<"total filament weight\\s*\\[g\\]\\s*[:=]\\s*([\\d.,\\s]+)",
     "filament used \\[g\\]\\s*=\\s*([\\d.]+)",
     "filament_weight[\"\\']?\\s*[:=]\\s*([\\d.]+)",
     "weight[\"\\']?\\s*[:=]\\s*([\\d.]+)",
     "([\\d.]+)\\s*g(?:ram)?">>

\* Lines 148-152
binary_material_patterns ==
    <<"filament_type\\s*=\\s*(\\w+)",
     "filament[\"\\']?\\s*[:=]\\s*[\"\\']?(\\w+)[\"\\']?",
     "material[\"\\']?\\s*[:=]\\s*[\"\\']?(\\w+)[\"\\']?">>

\* Lines 185-192
text_time_patterns ==
    <<";TIME:(\\d+)",
     "; estimated printing time \\(normal mode\\)\\s*=\\s*(?:(\\d+)h\\s*)?(?:(\\d+)m\\s*)?(?:(\\d+)s)?",
     "; estimated printing time \\(silent mode\\)\\s*=\\s*(?:(\\d+)h\\s*)?(?:(\\d+)m\\s*)?(?:(\\d+)s)?",
     "; estimated printing time\\s*=\\s*(?:(\\d+)h\\s*)?(?:(\\d+)m\\s*)?(?:(\\d+)m\\s*)?(?:(\\d+)s)?",
     ";Print time: (?:(\\d+)h\\s*)?(?:(\\d+)m\\s*)?(?:(\\d+)s)?",
     ";TIME_ELAPSED:([\\d.]+)">>

\* Lines 213-222
text_filament_patterns ==
    <<";\\s*total filament weight\\s*\\[g\\]\\s*[:=]\\s*([\\d.,\\s]+)",
     ";\\s*filament used \\[g\\]\\s*=\\s*([\\d.]+)",
     ";\\s*total filament used \\[g\\]\\s*=\\s*([\\d.]+)",
     ";Filament used:\\s*([\\d.]+)\\s*m",
     ";Weight:\\s*([\\d.]+)\\s*g",
     ";Filament weight:\\s*([\\d.]+)\\s*g",
     ";Filament length:\\s*([\\d.]+)\\s*m">>

\* Lines 252-256
text_material_patterns ==
    <<";\\s*filament_type\\s*[:=]\\s*(\\w+)",
     ";\\s*material\\s*[:=]\\s*(\\w+)",
     "filament_type\\s*=\\s*(\\w+)">>

\* No match: re.search returned None.
NoMatch == <<>>

\* What re.search(pattern, line, re.IGNORECASE) captures on a line of Lines
\* or on a file name of FileNames: the groups of the match (a group that
\* took no part is ""), or NoMatch.
match_groups(pattern, line) ==
    CASE pattern = "estimated printing time \\(normal mode\\)\\s*=\\s*(?:(\\d+)h\\s*)?(?:(\\d+)m\\s*)?(?:(\\d+)s)?" /\ line = "; estimated printing time (normal mode) = 1h 30m 15s" ->
            <<"1", "30", "15">>
      [] pattern = "estimated printing time\\s*=\\s*(?:(\\d+)h\\s*)?(?:(\\d+)m\\s*)?(?:(\\d+)s)?" /\ line = "; estimated printing time = 2h 0m 30s" ->
            <<"2", "0", "30">>
      [] pattern = "print_time\\s*[:=]\\s*(\\d+)" /\ line = "print_time: 20000" ->
            <<"20000">>
      [] pattern = "time\\s*[:=]\\s*(\\d+)" /\ line = ";TIME:5400" ->
            <<"5400">>
      [] pattern = "time\\s*[:=]\\s*(\\d+)" /\ line = "; estimated printing time = 2h 0m 30s" ->
            <<"2">>
      [] pattern = "time\\s*[:=]\\s*(\\d+)" /\ line = "print_time: 20000" ->
            <<"20000">>
      [] pattern = "time\\s*[:=]\\s*(\\d+)" /\ line = ";TIME:0" ->
            <<"0">>
      [] pattern = "total filament weight\\s*\\[g\\]\\s*[:=]\\s*([\\d.,\\s]+)" /\ line = "; total filament weight [g] : 30.98,1.12" ->
            <<"30.98,1.12">>
      [] pattern = "filament used \\[g\\]\\s*=\\s*([\\d.]+)" /\ line = "; filament used [g] = 35.79" ->
            <<"35.79">>
      [] pattern = "weight[\"\\']?\\s*[:=]\\s*([\\d.]+)" /\ line = ";Weight: 1.2.3 g" ->
            <<"1.2.3">>
      [] pattern = "([\\d.]+)\\s*g(?:ram)?" /\ line = ";Weight: 1.2.3 g" ->
            <<"1.2.3">>
      [] pattern = "filament_type\\s*=\\s*(\\w+)" /\ line = "; filament_type = PETG" ->
            <<"PETG">>
      [] pattern = ";TIME:(\\d+)" /\ line = ";TIME:5400" ->
            <<"5400">>
      [] pattern = ";TIME:(\\d+)" /\ line = ";TIME:0" ->
            <<"0">>
      [] pattern = "; estimated printing time \\(normal mode\\)\\s*=\\s*(?:(\\d+)h\\s*)?(?:(\\d+)m\\s*)?(?:(\\d+)s)?" /\ line = "; estimated printing time (normal mode) = 1h 30m 15s" ->
            <<"1", "30", "15">>
      [] pattern = "; estimated printing time\\s*=\\s*(?:(\\d+)h\\s*)?(?:(\\d+)m\\s*)?(?:(\\d+)m\\s*)?(?:(\\d+)s)?" /\ line = "; estimated printing time = 2h 0m 30s" ->
            <<"2", "0", "", "30">>
      [] pattern = ";TIME_ELAPSED:([\\d.]+)" /\ line = ";TIME_ELAPSED:1.2.3" ->
            <<"1.2.3">>
      [] pattern = ";\\s*total filament weight\\s*\\[g\\]\\s*[:=]\\s*([\\d.,\\s]+)" /\ line = "; total filament weight [g] : 30.98,1.12" ->
            <<"30.98,1.12">>
      [] pattern = ";\\s*filament used \\[g\\]\\s*=\\s*([\\d.]+)" /\ line = "; filament used [g] = 35.79" ->
            <<"35.79">>
      [] pattern = ";Filament used:\\s*([\\d.]+)\\s*m" /\ line = ";Filament used: 2.0m" ->
            <<"2.0">>
      [] pattern = ";Weight:\\s*([\\d.]+)\\s*g" /\ line = ";Weight: 1.2.3 g" ->
            <<"1.2.3">>
      [] pattern = ";\\s*filament_type\\s*[:=]\\s*(\\w+)" /\ line = "; filament_type = PETG" ->
            <<"PETG">>
      [] pattern = "(\\d+)h\\s*(\\d+)m(?:\\s*(\\d+)s)?" /\ line = "part_2h36m.gcode" ->
            <<"2", "36", "">>
      [] pattern = "(\\d+)h\\s*(\\d+)m(?:\\s*(\\d+)s)?" /\ line = "part_2h36m.bgcode" ->
            <<"2", "36", "">>
      [] OTHER -> NoMatch

\* What float() does with a string that is no number.
ValueError == [raised |-> TRUE, value |-> Zero]

\* int(s) on the digit strings the patterns capture
int(s) ==
    CASE s = "0" -> 0
      [] s = "1" -> 1
      [] s = "15" -> 15
      [] s = "2" -> 2
      [] s = "20000" -> 20000
      [] s = "30" -> 30
      [] s = "36" -> 36
      [] s = "5400" -> 5400

\* float(s) on the strings the patterns capture: the number s denotes, as
\* an exact rational, or ValueError
float(s) ==
    CASE s = "0" -> [raised |-> FALSE, value |-> <<0, 1>>]
      [] s = "1" -> [raised |-> FALSE, value |-> <<1, 1>>]
      [] s = "1.12" -> [raised |-> FALSE, value |-> <<28, 25>>]
      [] s = "1.2.3" -> ValueError
      [] s = "15" -> [raised |-> FALSE, value |-> <<15, 1>>]
      [] s = "2" -> [raised |-> FALSE, value |-> <<2, 1>>]
      [] s = "2.0" -> [raised |-> FALSE, value |-> <<2, 1>>]
      [] s = "20000" -> [raised |-> FALSE, value |-> <<20000, 1>>]
      [] s = "30" -> [raised |-> FALSE, value |-> <<30, 1>>]
      [] s = "30.98" -> [raised |-> FALSE, value |-> <<1549, 50>>]
      [] s = "35.79" -> [raised |-> FALSE, value |-> <<3579, 100>>]
      [] s = "36" -> [raised |-> FALSE, value |-> <<36, 1>>]
      [] s = "5400" -> [raised |-> FALSE, value |-> <<5400, 1>>]

\* "sub in pattern" for the unit tests of lines 237-245 on the text patterns
contains(sub, pattern) ==
    <<sub, pattern>> \in
      {<<"\\[g\\]", ";\\s*total filament weight\\s*\\[g\\]\\s*[:=]\\s*([\\d.,\\s]+)">>,
       <<"\\[g\\]", ";\\s*filament used \\[g\\]\\s*=\\s*([\\d.]+)">>,
       <<"\\[g\\]", ";\\s*total filament used \\[g\\]\\s*=\\s*([\\d.]+)">>,
       <<"\\s*m", ";Filament used:\\s*([\\d.]+)\\s*m">>,
       <<"\\s*g", ";Weight:\\s*([\\d.]+)\\s*g">>,
       <<"\\s*g", ";Filament weight:\\s*([\\d.]+)\\s*g">>,
       <<"\\s*m", ";Filament length:\\s*([\\d.]+)\\s*m">>}

\* re.search(pattern, content, re.IGNORECASE) on a content of whole lines:
\* the groups of the leftmost match.
re_search(pattern, content) ==
    IF \E i \in 1..Len(content) : match_groups(pattern, content[i]) # NoMatch
    THEN LET i == CHOOSE k \in 1..Len(content) :
                    /\ match_groups(pattern, content[k]) # NoMatch
                    /\ \A j \in 1..(k - 1) : match_groups(pattern, content[j]) = NoMatch
         IN  match_groups(pattern, content[i])
    ELSE NoMatch

\* The pattern a loop over the patterns stops at, counted from the end of the
\* list: the last pattern with a match, 0 when none has one.
last_match(patterns, content) ==
    IF \E k \in 1..Len(patterns) : re_search(patterns[k], content) # NoMatch
    THEN CHOOSE k \in 1..Len(patterns) :
            /\ re_search(patterns[k], content) # NoMatch
            /\ \A j \in (k + 1)..Len(patterns) : re_search(patterns[j], content) = NoMatch
    ELSE 0

\* The pattern the loop "for pattern in patterns: match = re.search(...);
\* if match: ...; break" stops at: the first one with a match, 0 when none
\* has one.
first_match(patterns, content) ==
    IF \E k \in 1..Len(patterns) : re_search(patterns[k], content) # NoMatch
    THEN CHOOSE k \in 1..Len(patterns) :
            /\ re_search(patterns[k], content) # NoMatch
            /\ \A j \in 1..(k - 1) : re_search(patterns[j], content) = NoMatch
    ELSE 0

\* int(match.group(k) or 0)
int_or_0(s) == IF s = "" THEN 0 ELSE int(s)

\* hours + minutes / 60.0 + seconds / 3600.0
hours_of(hours, minutes, seconds) == Rat(hours * 3600 + minutes * 60 + seconds, 3600)

time_pattern == "(\\d+)h\\s*(\\d+)m(?:\\s*(\\d+)s)?"

_parse_filename_time(filename) ==
    LET match == match_groups(time_pattern, filename) IN
    IF match # NoMatch
    THEN hours_of(int(match[1]), int(match[2]), int_or_0(match[3]))
    ELSE Zero

materials == <<"PETG", "PLA", "ABS", "ASA", "PP", "TPU", "NYLON", "PA", "PC", "POLYCARBONATE", "PET">>

\* "material in filename.upper()" on the file names of FileNames: each holds
\* "PART", and so "PA", and no other material name.
in_filename_upper(material, filename) == material = "PA" /\ filename \in FileNames

_parse_filename_material(filename) ==
    IF \E k \in 1..Len(materials) : in_filename_upper(materials[k], filename)
    THEN LET k == CHOOSE i \in 1..Len(materials) :
                    /\ in_filename_upper(materials[i], filename)
                    /\ \A j \in 1..(i - 1) : ~in_filename_upper(materials[j], filename)
         IN  IF materials[k] = "PET" THEN "PETG" ELSE materials[k]
    ELSE ""

\* material_mapping.get(material, material)
material_mapping(material) ==
    CASE material = "POLYCARBONATE" -> "PC"
      [] material = "PET" -> "PETG"
      [] OTHER -> material

\* file_path.lower().endswith('.bgcode')
is_bgcode(file_path) == file_path \in {"part.bgcode", "part_2h36m.bgcode"}

\* value_str.split(','); "',' in value_str" is Len(split(value_str)) > 1
split(value_str) ==
    CASE value_str = "30.98,1.12" -> <<"30.98", "1.12">>
      [] OTHER -> <<value_str>>

RECURSIVE sum(_)
sum(weights) == IF weights = <<>> THEN Zero ELSE RatAdd(weights[1], sum(Tail(weights)))

\* The result dictionary of line 76.
new_result == [time_hours |-> Zero, filament_weight_g |-> Zero, material_type |-> ""]

\* A step of the try block: the dictionary it leaves, and whether it raised.
Done(result) == [raised |-> FALSE, result |-> result]
Raised(result) == [raised |-> TRUE, result |-> result]

\* The time of a match with one group, taken always as seconds.
seconds_only(binary, seconds) == RatDiv(seconds, Rat(3600, 1))

\* The time of a match with one group: lines 103-109 (int, milliseconds
\* above 10000) and 197-199 (float seconds).
single_time(binary, seconds) ==
    IF binary /\ RatLess(Rat(10000, 1), seconds)
    THEN RatDiv(seconds, Rat(3600000, 1))
    ELSE RatDiv(seconds, Rat(3600, 1))

\* A cascade that lets the last matching pattern decide.
extract_time_last_wins(binary, content, result) ==
    LET patterns == IF binary THEN binary_time_patterns ELSE text_time_patterns
        k == last_match(patterns, content)
        match == re_search(patterns[k], content)
    IN  IF k = 0 THEN Done(result)
        ELSE IF Len(match) = 1
        THEN IF float(match[1]).raised THEN Raised(result)
             ELSE Done([result EXCEPT !.time_hours = single_time(binary, float(match[1]).value)])
        ELSE Done([result EXCEPT !.time_hours =
                        hours_of(int_or_0(match[1]), int_or_0(match[2]), int_or_0(match[3]))])

\* The loops over time_patterns, lines 100-116 and 194-205.  In the binary
\* path the one group is \d+, which int() always takes.
extract_time(binary, content, result) ==
    LET patterns == IF binary THEN binary_time_patterns ELSE text_time_patterns
        k == first_match(patterns, content)
        match == re_search(patterns[k], content)
    IN  IF k = 0 THEN Done(result)
        ELSE IF Len(match) = 1
        THEN IF float(match[1]).raised THEN Raised(result)
             ELSE Done([result EXCEPT !.time_hours = single_time(binary, float(match[1]).value)])
        ELSE Done([result EXCEPT !.time_hours =
                        hours_of(int_or_0(match[1]), int_or_0(match[2]), int_or_0(match[3]))])

\* "if result['time_hours'] == 0.0: result['time_hours'] =
\* _parse_filename_time(filename)", lines 119-120, 208-209 and 285-286.
filename_time_fallback(result, filename) ==
    IF result.time_hours = Zero
    THEN [result EXCEPT !.time_hours = _parse_filename_time(filename)]
    ELSE result

\* The weight of a single value: grams as they are, meters times 2.7 (text
\* path, lines 236-248); the binary path takes the value as it is (line 144).
single_weight(binary, pattern, value) ==
    IF binary THEN value
    ELSE IF contains("\\[g\\]", pattern) \/ contains("\\s*g", pattern) THEN value
    ELSE IF contains("\\s*m", pattern) \/ contains("\\[m\\]", pattern) THEN RatMul(value, Rat(27, 10))
    ELSE value

\* A weight step that takes a value with commas as no value at all.
extract_filament_single_only(binary, content, result) ==
    LET patterns == IF binary THEN binary_filament_patterns ELSE text_filament_patterns
        k == first_match(patterns, content)
        value_str == re_search(patterns[k], content)[1]
    IN  IF k = 0 \/ Len(split(value_str)) > 1 THEN Done(result)
        ELSE IF float(value_str).raised THEN Raised(result)
        ELSE Done([result EXCEPT !.filament_weight_g =
                        single_weight(binary, patterns[k], float(value_str).value)])

\* The loops over filament_patterns, lines 132-145 and 224-249.
extract_filament(binary, content, result) ==
    LET patterns == IF binary THEN binary_filament_patterns ELSE text_filament_patterns
        k == first_match(patterns, content)
        value_str == re_search(patterns[k], content)[1]
        parts == split(value_str)
        weights == [i \in 1..Len(parts) |-> float(parts[i]).value]
    IN  IF k = 0 THEN Done(result)
        ELSE IF Len(parts) > 1
        THEN IF \E i \in 1..Len(parts) : float(parts[i]).raised THEN Raised(result)
             ELSE Done([filament_weights_g |-> weights] @@
                       [result EXCEPT !.filament_weight_g = sum(weights)])
        ELSE IF float(value_str).raised THEN Raised(result)
        ELSE Done([result EXCEPT !.filament_weight_g =
                        single_weight(binary, patterns[k], float(value_str).value)])

\* The loops over material_patterns and the file name fallback, lines
\* 154-177 and 258-280.
extract_material(binary, content, filename, result) ==
    LET patterns == IF binary THEN binary_material_patterns ELSE text_material_patterns
        k == first_match(patterns, content)
        found == IF k = 0 THEN result
                 ELSE [result EXCEPT !.material_type =
                            material_mapping(Upper(re_search(patterns[k], content)[1]))]
    IN  IF found.material_type = ""
        THEN [found EXCEPT !.material_type = _parse_filename_material(filename)]
        ELSE found

\* The try block, lines 79-280: open() raises on a file that cannot be read;
\* decoding with errors='ignore' does not raise.
try_block(file, result) ==
    LET binary == is_bgcode(file.file_path)
        time == extract_time(binary, file.content, result)
        timed == filename_time_fallback(time.result, file.file_path)
        filament == extract_filament(binary, file.content, timed)
    IN  IF ~file.readable THEN Raised(result)
        ELSE IF time.raised THEN time
        ELSE IF filament.raised THEN filament
        ELSE Done(extract_material(binary, file.content, file.file_path, filament.result))

\* A parser without the except clause: what the try block raises reaches the
\* caller.
parse_gcode_unguarded(file) == try_block(file, new_result)

\* GCodeParser.parse_gcode: the result it returns, and whether it raised.
parse_gcode(file) ==
    LET tried == try_block(file, new_result) IN
    IF tried.raised
    THEN Done(filename_time_fallback(tried.result, file.file_path))
    ELSE tried

\* ------------------------------------------------- CalculatorTab functions

RECURSIVE SumWeight(_)
\* sum(item['weight'] for item in items)
SumWeight(items) ==
    IF items = <<>> THEN 0 ELSE Head(items).weight + SumWeight(Tail(items))

RECURSIVE Concat(_)
\* The lists of a list of lists, one after the other.
Concat(lists) ==
    IF lists = <<>> THEN <<>> ELSE Head(lists) \o Concat(Tail(lists))

\* load_gcode_files, lines 826-849: the files that yielded weights, each with
\* its weights (the list of a multicolor file, else the one weight if > 0).
file_data_list(files) ==
    LET with_weights == SelectSeq(files, LAMBDA f : f.weights # <<>>) IN
    [k \in 1..Len(with_weights) |->
        [filename |-> with_weights[k].name, weights |-> with_weights[k].weights]]

\* load_gcode_files, line 863: whether the filament dialog is shown.
needs_dialog(files) ==
    LET fdl == file_data_list(files)
        has_multicolor == \E k \in 1..Len(files) :
                              files[k].multicolor /\ Len(files[k].weights) > 1
    IN  Len(fdl) > 1 \/ (has_multicolor /\ Len(fdl) > 0)

\* The weight slots the dialog shows, file after file.
dialog_slots(fdl) ==
    Concat([k \in 1..Len(fdl) |->
              [m \in 1..Len(fdl[k].weights) |->
                  [filename |-> fdl[k].filename, weight |-> fdl[k].weights[m]]]])

\* MulticolorFilamentDialog.accept_selection, lines 151-184: every slot has a
\* filament that exists and holds at least the slot's weight.
selection_accepted(fs, slots, chosen) ==
    \A k \in 1..Len(slots) :
        /\ find_by_id(fs, chosen[k]) # 0
        /\ ~(fs[find_by_id(fs, chosen[k])].current_weight * UnitsPerGram
                < slots[k].weight)

\* accept_selection, lines 186-196: selected_filaments and the file mapping.
selected_filaments(fs, slots, chosen) ==
    [k \in 1..Len(slots) |->
        [filament |-> fs[find_by_id(fs, chosen[k])], weight |-> slots[k].weight]]

selected_mapping(fs, fdl, slots, chosen) ==
    LET items == selected_filaments(fs, slots, chosen)
        of_file(name) ==
            LET ks == SelectSeq([k \in 1..Len(slots) |-> k],
                                LAMBDA k : slots[k].filename = name)
            IN  [m \in 1..Len(ks) |-> items[ks[m]]]
    IN  [k \in 1..Len(fdl) |->
            [filename |-> fdl[k].filename, filaments |-> of_file(fdl[k].filename)]]

\* validate_inputs: "" if valid, else the warning.
validate_inputs(fs, filament_id, multicolor, weight_input, time_input) ==
    IF filament_id = None /\ multicolor = <<>> THEN "select_filament_first"
    ELSE IF weight_input = None THEN "all_fields_numbers"
    ELSE IF weight_input <= 0 THEN "filament_must_be_positive"
    ELSE IF time_input = None THEN "all_fields_numbers"
    ELSE IF time_input <= 0 THEN "time_must_be_positive"
    ELSE IF multicolor # <<>>
    THEN IF \E k \in 1..Len(multicolor) :
                multicolor[k].filament.current_weight * UnitsPerGram
                    < multicolor[k].weight
         THEN "not_enough_filament" ELSE ""
    ELSE IF /\ find_by_id(fs, filament_id) # 0
            /\ fs[find_by_id(fs, filament_id)].current_weight * 10 < weight_input
         THEN "not_enough_filament" ELSE ""

RECURSIVE group_into(_, _)
\* execute_print, lines 1230-1255 and 1271-1281: the items grouped by filament
\* id in order of first appearance, their weights summed.
group_into(groups, items) ==
    IF items = <<>> THEN groups
    ELSE LET item == Head(items)
             g == find_by_id(groups, item.filament.id)
         IN  group_into(
                IF g # 0 THEN [groups EXCEPT ![g].weight = @ + item.weight]
                ELSE Append(groups, [id |-> item.filament.id,
                                     filament |-> item.filament,
                                     weight |-> item.weight]),
                Tail(items))

\* A grouping that opens a group for every item.
one_group_per_item(items) ==
    [k \in 1..Len(items) |->
        [id |-> items[k].filament.id, filament |-> items[k].filament,
         weight |-> items[k].weight]]

filament_groups(items) == group_into(<<>>, items)

\* The value of the mapping for a file name, <<>> if it has none.
mapping_index(mapping, name) ==
    IF \E k \in 1..Len(mapping) : mapping[k].filename = name
    THEN CHOOSE k \in 1..Len(mapping) : mapping[k].filename = name
    ELSE 0

\* execute_print, lines 1326-1370: one add_print per group, the price shared
\* by weight.
grouped_calls(groups, total_weight, total_price, gcode_file) ==
    [k \in 1..Len(groups) |->
        [filament_id |-> groups[k].filament.id,
         weight_used |-> groups[k].weight \div UnitsPerGram,
         price |-> IF total_weight > 0
                   THEN RatScale(total_price, groups[k].weight, total_weight)
                   ELSE Zero,
         gcode_file |-> gcode_file]]

\* execute_print, lines 1264-1296: the add_prints of one file that has a
\* mapping.
mapped_file_calls(file_filaments, total_weight, total_price, gcode_file) ==
    LET file_total_weight == SumWeight(file_filaments)
        file_price == IF total_weight > 0
                      THEN RatScale(total_price, file_total_weight, total_weight)
                      ELSE Zero
        groups == filament_groups(file_filaments)
    IN  [k \in 1..Len(groups) |->
            [filament_id |-> groups[k].filament.id,
             weight_used |-> groups[k].weight \div UnitsPerGram,
             price |-> IF file_total_weight > 0
                       THEN RatScale(file_price, groups[k].weight, file_total_weight)
                       ELSE Zero,
             gcode_file |-> <<gcode_file>>]]

\* execute_print, lines 1297-1312: the add_prints of one file that has no
\* mapping ("shouldn't happen"): every group of the job, divided by the
\* number of files.
unmapped_file_calls(groups, total_weight, total_price, file_count, gcode_file) ==
    LET price_per_file == RatScale(total_price, 1, file_count) IN
    [k \in 1..Len(groups) |->
        [filament_id |-> groups[k].filament.id,
         \* int(grouped_weight / len(gcode_files))
         weight_used |-> groups[k].weight \div (UnitsPerGram * file_count),
         \* (weight_per_file / total_weight) * price_per_file
         price |-> IF total_weight > 0
                   THEN RatScale(price_per_file, groups[k].weight,
                                 file_count * total_weight)
                   ELSE Zero,
         gcode_file |-> <<gcode_file>>]]

\* execute_print, lines 1217-1422: the add_print calls of a commit, in order.
\* gcode_files are the listed names, weight_input the text in 1/10 g.
execute_print_calls(filament_id, multicolor, mapping, gcode_files, checkbox, weight_input, total_price) ==
    LET save_separately == checkbox /\ Len(gcode_files) > 1
        mapped == Concat([k \in 1..Len(mapping) |-> mapping[k].filaments])
        total_weight == IF multicolor # <<>> THEN SumWeight(multicolor)
                        ELSE SumWeight(mapped)
        groups == IF multicolor # <<>> THEN filament_groups(multicolor)
                  ELSE filament_groups(mapped)
        file_count == Len(gcode_files)
    IN  IF multicolor # <<>> \/ mapping # <<>>
        THEN IF save_separately
             THEN Concat([k \in 1..file_count |->
                    LET m == mapping_index(mapping, gcode_files[k]) IN
                    IF m # 0
                    THEN mapped_file_calls(mapping[m].filaments, total_weight,
                                           total_price, gcode_files[k])
                    ELSE unmapped_file_calls(groups, total_weight, total_price,
                                             file_count, gcode_files[k])])
             ELSE grouped_calls(groups, total_weight, total_price, gcode_files)
        ELSE IF save_separately
             THEN [k \in 1..file_count |->
                    [filament_id |-> filament_id,
                     \* int(filament_weight / len(gcode_files))
                     weight_used |-> weight_input \div (10 * file_count),
                     price |-> RatScale(total_price, 1, file_count),
                     gcode_file |-> <<gcode_files[k]>>]]
             ELSE <<[filament_id |-> filament_id,
                     weight_used |-> weight_input \div 10,
                     price |-> total_price,
                     gcode_file |-> gcode_files]>>

RECURSIVE run_add_prints(_, _, _, _)
\* The add_print calls of a commit one after the other; the first one that
\* raises ends the commit (execute_print's except clause, line 1455), and what
\* the earlier ones wrote stays written.
run_add_prints(fs, ps, issued, calls) ==
    IF calls = <<>>
    THEN [raised |-> "", filaments |-> fs, prints |-> ps, issued |-> issued]
    ELSE LET c == Head(calls)
             r == add_print(fs, ps, issued + 1, c.filament_id, c.weight_used,
                            c.price, c.gcode_file)
         IN  IF r.raised # ""
             THEN [raised |-> r.raised, filaments |-> r.filaments,
                   prints |-> r.prints, issued |-> issued]
             ELSE run_add_prints(r.filaments, r.prints, issued + 1, Tail(calls))

\* ------------------------------------------------------------- the calls

\* What `last` holds when no call has been made, and the fields of a call:
\* its arguments, what it returned (ret) or raised, the amounts an
\* insufficient-weight error carries, the id it created, and
\*   old_filament_id, old_weight: what delete_print and update_print read from
\*               the record they are given (None if there is no such record);
\*               of update_filament, old_weight is the initial_weight it read;
\*   before:     the current_weight add_print read (line 403) or
\*               update_filament read (line 325), None if unknown;
\*   round_trip: this delete_print deletes the record the call just before,
\*               an add_print, created (before is then that add_print's);
\*   warning:    the message of the warning box a calculator handler stopped at;
\*   mode, slots, groups, created: of an execute_print that reached its
\*               add_print calls, the branch it took, the weight slots and
\*               the distinct filaments chosen, the records it created;
\*   brand_id, name: the brand a brand function is given, and the name;
\*   args, result: of a PriceCalculator call, the arguments under their names
\*               and what it returned.
NoCall ==
    [op |-> "", filament_id |-> None, print_id |-> None, weight |-> None,
     restore_weight |-> FALSE, ret |-> FALSE, raised |-> "",
     available |-> None, requested |-> None, new_id |-> None,
     old_filament_id |-> None, old_weight |-> None,
     before |-> None, round_trip |-> FALSE,
     warning |-> "", mode |-> "", slots |-> 0, groups |-> 0, created |-> 0,
     args |-> <<>>, result |-> <<>>, brand_id |-> None, name |-> ""]

current_weight_of(fs, filament_id) ==
    IF find_by_id(fs, filament_id) = 0 THEN None
    ELSE fs[find_by_id(fs, filament_id)].current_weight

BrandNames == {"prusa", "PRUSA"}
FilamentIds == 1..MaxFilaments
PrintIds == 1..MaxPrints
Grams == 0..MaxWeight
\* The price add_print is given, and the prices update_print is given.
AddPrices == {<<5, 1>>}
EditPrices == {NonePrice, <<5, 1>>}

\* The callers of add_print that may run at once (two instances of the
\* application on one data directory), and a caller that has not called.
Callers == 1..MaxCallers
NotCalling ==
    [pc |-> "idle", filament_id |-> None, weight_used |-> None, index |-> 0,
     filaments |-> <<>>, new_id |-> None, prints |-> <<>>, raised |-> ""]
NoCalls == [c \in Callers |-> NotCalling]

\* CalculatorTab.__init__ and init_ui: nothing listed, chosen or computed.
InitCalculator ==
    /\ gcode_list = <<>>
    /\ save_separately_checkbox = FALSE
    /\ current_filament_id = None
    /\ current_multicolor_filaments = <<>>
    /\ file_filament_mapping = <<>>
    /\ filament_weight_input = None
    /\ print_time_input = None
    /\ current_price_result = NonePrice

Init ==
    /\ brands = <<>>
    /\ brand_uuids = 0
    /\ filaments = <<>>
    /\ prints = <<>>
    /\ filament_uuids = 0
    /\ print_uuids = 0
    /\ last = NoCall
    /\ InitCalculator
    /\ add_print_calls = NoCalls

\* The weights typed into the add-filament dialog: a net weight, or a gross
\* weight (spool included) that leaves nothing (rejected) or MaxWeight.
NetWeights == {MaxWeight - 1, MaxWeight}
GrossWeights(spool_weight) == {spool_weight, spool_weight + MaxWeight}

AddFilamentOf(names) ==
    /\ filament_uuids < MaxFilaments
    /\ \E brand \in names, without_spool \in BOOLEAN :
       \E initial_weight \in IF without_spool THEN NetWeights
                              ELSE GrossWeights(get_spool_weight(brands, brand)) :
        LET r == add_filament(brands, filaments, filament_uuids + 1, brand,
                              initial_weight, without_spool)
        IN  /\ filaments' = r.filaments
            /\ filament_uuids' = IF r.raised = "" THEN filament_uuids + 1
                                 ELSE filament_uuids
            /\ last' = [NoCall EXCEPT !.op = "add_filament", !.weight = initial_weight,
                                      !.args = [brand |-> brand,
                                                without_spool |-> without_spool],
                                      !.raised = r.raised,
                                      !.new_id = IF r.raised = "" THEN filament_uuids + 1
                                                 ELSE None]
    /\ UNCHANGED <<brands, brand_uuids, prints, print_uuids, calculator, add_print_calls>>

AddFilament == AddFilamentOf(BrandNames)

UpdateFilamentOf(names) ==
    /\ \E filament_id \in FilamentIds, brand \in names,
          without_spool \in BOOLEAN :
       \E initial_weight \in IF without_spool THEN NetWeights
                              ELSE GrossWeights(get_spool_weight(brands, brand)) :
        LET r == update_filament(brands, filaments, filament_id, brand,
                                 initial_weight, without_spool)
            i == find_by_id(filaments, filament_id)
        IN  /\ filaments' = r.filaments
            /\ last' = [NoCall EXCEPT !.op = "update_filament",
                                      !.filament_id = filament_id,
                                      !.weight = initial_weight,
                                      !.args = [brand |-> brand,
                                                without_spool |-> without_spool],
                                      !.raised = r.raised,
                                      !.old_weight = IF i = 0 THEN None
                                                     ELSE filaments[i].initial_weight,
                                      !.before = current_weight_of(filaments, filament_id)]
    /\ UNCHANGED <<brands, brand_uuids, prints, filament_uuids, print_uuids, calculator, add_print_calls>>

UpdateFilament == UpdateFilamentOf(BrandNames)

DeleteFilament ==
    /\ \E filament_id \in FilamentIds :
        LET r == delete_filament(filaments, filament_id) IN
            /\ filaments' = r.filaments
            /\ last' = [NoCall EXCEPT !.op = "delete_filament",
                                      !.filament_id = filament_id, !.ret = r.ret]
    /\ UNCHANGED <<brands, brand_uuids, prints, filament_uuids, print_uuids, calculator, add_print_calls>>

UpdateFilamentWeight ==
    /\ \E filament_id \in FilamentIds, weight_used \in Grams :
        LET r == update_filament_weight(filaments, filament_id, weight_used) IN
            /\ filaments' = r.filaments
            /\ last' = [NoCall EXCEPT !.op = "update_filament_weight",
                                      !.filament_id = filament_id,
                                      !.weight = weight_used, !.ret = r.ret]
    /\ UNCHANGED <<brands, brand_uuids, prints, filament_uuids, print_uuids, calculator, add_print_calls>>

AddPrint ==
    /\ print_uuids < MaxPrints
    /\ \E filament_id \in FilamentIds, weight_used \in Grams, price \in AddPrices :
        LET r == add_print(filaments, prints, print_uuids + 1, filament_id,
                           weight_used, price, <<>>)
        IN  /\ filaments' = r.filaments
            /\ prints' = r.prints
            /\ print_uuids' = IF r.raised = "" THEN print_uuids + 1 ELSE print_uuids
            /\ last' = [NoCall EXCEPT !.op = "add_print",
                                      !.filament_id = filament_id,
                                      !.weight = weight_used,
                                      !.raised = r.raised,
                                      !.available = r.available,
                                      !.requested = r.requested,
                                      !.new_id = IF r.raised = "" THEN print_uuids + 1
                                                 ELSE None,
                                      !.before = current_weight_of(filaments, filament_id)]
    /\ UNCHANGED <<brands, brand_uuids, filament_uuids, calculator, add_print_calls>>

DeletePrintCall(restore_weight) ==
    /\ \E print_id \in PrintIds :
        LET r == delete_print(filaments, prints, print_id, restore_weight)
            i == find_by_id(prints, print_id)
            round_trip == last.op = "add_print" /\ last.new_id = print_id
        IN  /\ filaments' = r.filaments
            /\ prints' = r.prints
            /\ last' = [NoCall EXCEPT !.op = "delete_print", !.print_id = print_id,
                                      !.restore_weight = restore_weight,
                                      !.ret = r.ret,
                                      !.old_filament_id = IF i = 0 THEN None
                                                          ELSE prints[i].filament_id,
                                      !.old_weight = IF i = 0 THEN None
                                                     ELSE prints[i].weight_used,
                                      !.round_trip = round_trip,
                                      !.before = IF round_trip THEN last.before
                                                 ELSE None]
    /\ UNCHANGED <<brands, brand_uuids, filament_uuids, print_uuids, calculator, add_print_calls>>

DeletePrint == \E restore_weight \in BOOLEAN : DeletePrintCall(restore_weight)

\* The history tab's and the filament-history dialog's delete button.
DeletePrintRestoring == DeletePrintCall(TRUE)

UpdatePrint ==
    /\ \E print_id \in PrintIds, filament_id \in FilamentIds \cup {None},
          weight_used \in Grams \cup {None}, price \in EditPrices :
        LET r == update_print(filaments, prints, print_id, filament_id,
                              weight_used, price)
            i == find_by_id(prints, print_id)
        IN  /\ filaments' = r.filaments
            /\ prints' = r.prints
            /\ last' = [NoCall EXCEPT !.op = "update_print", !.print_id = print_id,
                                      !.filament_id = filament_id,
                                      !.weight = weight_used,
                                      !.ret = r.ret, !.raised = r.raised,
                                      !.old_filament_id = IF i = 0 THEN None
                                                          ELSE prints[i].filament_id,
                                      !.old_weight = IF i = 0 THEN None
                                                     ELSE prints[i].weight_used,
                                      !.available = r.available,
                                      !.requested = r.requested]
    /\ UNCHANGED <<brands, brand_uuids, filament_uuids, print_uuids, calculator, add_print_calls>>

\* ---------------------------------------------------------- the calculator

\* The G-code files the user can list, each with what GCodeParser.parse_gcode
\* returns for it (weights in 1/UnitsPerGram g): a single-colour file, a
\* multicolor file, and a file with no filament weight in it.
ListableFiles ==
    { [name |-> "a.gcode", time_hours |-> 1, multicolor |-> FALSE,
       filament_weight_g |-> UnitsPerGram + 1, weights |-> <<UnitsPerGram + 1>>],
      [name |-> "b.gcode", time_hours |-> 1, multicolor |-> TRUE,
       filament_weight_g |-> 2 * UnitsPerGram + 1,
       weights |-> <<UnitsPerGram, UnitsPerGram + 1>>],
      [name |-> "c.gcode", time_hours |-> 0, multicolor |-> FALSE,
       filament_weight_g |-> 0, weights |-> <<>>] }

\* The final_price a calculation yields (the rates are configuration).
FinalPrices == {<<12, 1>>}
\* What the user types into the weight field (1/10 g) and the time field (h).
TypedWeights == {10 * MaxWeight}
TypedTimes == {1}

RECURSIVE SumField(_, _)
SumField(files, field) ==
    IF files = <<>> THEN 0 ELSE Head(files)[field] + SumField(Tail(files), field)

\* A stocked inventory: two spools, no history.
InitStocked ==
    /\ brands = <<>>
    /\ brand_uuids = 0
    /\ \E w1 \in NetWeights, w2 \in NetWeights :
        filaments = add_filament(brands,
                        add_filament(brands, <<>>, 1, "prusa", w1, TRUE).filaments,
                        2, "PRUSA", w2, TRUE).filaments
    /\ prints = <<>>
    /\ filament_uuids = MaxFilaments
    /\ print_uuids = 0
    /\ last = NoCall
    /\ InitCalculator
    /\ add_print_calls = NoCalls

\* select_gcode_files: one more file picked in the file dialog.
SelectGcodeFiles ==
    /\ Len(gcode_list) < MaxFiles
    /\ \E file \in ListableFiles :
        /\ \A k \in 1..Len(gcode_list) : gcode_list[k] # file
        /\ gcode_list' = Append(gcode_list, file)
    \* _update_save_separately_checkbox
    /\ save_separately_checkbox' = (save_separately_checkbox /\ Len(gcode_list') > 1)
    /\ UNCHANGED last
    /\ UNCHANGED <<ledger, current_filament_id, current_multicolor_filaments,
                   file_filament_mapping, filament_weight_input,
                   print_time_input, current_price_result, add_print_calls>>

\* The user ticks or unticks the checkbox, enabled while several files are
\* listed.
ToggleSaveSeparately ==
    /\ Len(gcode_list) > 1
    /\ save_separately_checkbox' = ~save_separately_checkbox
    /\ UNCHANGED last
    /\ UNCHANGED <<ledger, gcode_list, current_filament_id,
                   current_multicolor_filaments, file_filament_mapping,
                   filament_weight_input, print_time_input, current_price_result, add_print_calls>>

\* load_gcode_files, the filament dialog accepted with a choice it accepts.
LoadAccepted(fdl) ==
    LET slots == dialog_slots(fdl) IN
    \E chosen \in [1..Len(slots) -> FilamentIds] :
        /\ selection_accepted(filaments, slots, chosen)
        /\ current_multicolor_filaments' = selected_filaments(filaments, slots, chosen)
        /\ file_filament_mapping' = selected_mapping(filaments, fdl, slots, chosen)
        /\ current_filament_id' = None
        /\ filament_weight_input' = FormatTenths(SumWeight(current_multicolor_filaments'))

\* load_gcode_files, the filament dialog cancelled.
LoadCancelled ==
    /\ current_multicolor_filaments' = <<>>
    /\ file_filament_mapping' = <<>>
    /\ UNCHANGED <<current_filament_id, filament_weight_input>>

\* load_gcode_files, no dialog: one file with one weight, or no weights.
LoadSingle(total_filament) ==
    /\ current_multicolor_filaments' = <<>>
    /\ file_filament_mapping' = <<>>
    /\ filament_weight_input' = IF total_filament > 0 THEN FormatTenths(total_filament)
                                ELSE filament_weight_input
    /\ UNCHANGED current_filament_id

LoadGcodeFiles ==
    /\ gcode_list # <<>>
    /\ LET total_time == SumField(gcode_list, "time_hours")
           total_filament == SumField(gcode_list, "filament_weight_g")
           fdl == file_data_list(gcode_list)
       IN  /\ print_time_input' = IF total_time > 0 THEN total_time
                                   ELSE print_time_input
           /\ IF needs_dialog(gcode_list)
              THEN LoadAccepted(fdl) \/ LoadCancelled
              ELSE LoadSingle(total_filament)
    /\ UNCHANGED last
    /\ UNCHANGED <<ledger, gcode_list, save_separately_checkbox, current_price_result, add_print_calls>>

\* on_filament_changed: the combo box, enabled while no multicolor selection
\* is held, set to "select filament" (None) or to a filament it lists.
OnFilamentChanged ==
    /\ current_multicolor_filaments = <<>>
    /\ \E filament_id \in FilamentIds \cup {None} :
        IF filament_id = None \/ find_by_id(filaments, filament_id) # 0
        THEN /\ current_filament_id' = filament_id
             /\ current_multicolor_filaments' = <<>>
             /\ file_filament_mapping' = <<>>
        ELSE UNCHANGED <<current_filament_id, current_multicolor_filaments,
                         file_filament_mapping>>
    /\ UNCHANGED last
    /\ UNCHANGED <<ledger, gcode_list, save_separately_checkbox,
                   filament_weight_input, print_time_input, current_price_result, add_print_calls>>

\* The user types a weight and a time.
TypeInputs ==
    /\ \E weight \in TypedWeights, time \in TypedTimes :
        /\ filament_weight_input' = weight
        /\ print_time_input' = time
    /\ UNCHANGED last
    /\ UNCHANGED <<ledger, gcode_list, save_separately_checkbox, current_filament_id,
                   current_multicolor_filaments, file_filament_mapping,
                   current_price_result, add_print_calls>>

\* calculate_price: a warning and nothing else if the inputs are invalid; else
\* the result is stored, unless a rate is missing from the configuration (no
\* price).
CalculatePrice ==
    LET warning == validate_inputs(filaments, current_filament_id,
                                   current_multicolor_filaments,
                                   filament_weight_input, print_time_input)
    IN  /\ \E price \in FinalPrices \cup {NonePrice} :
            current_price_result' = IF warning = "" /\ price # NonePrice
                                    THEN price ELSE current_price_result
        /\ UNCHANGED last
        /\ UNCHANGED <<ledger, gcode_list, save_separately_checkbox,
                       current_filament_id, current_multicolor_filaments,
                       file_filament_mapping, filament_weight_input,
                       print_time_input, add_print_calls>>

\* clear_gcode_list: everything in the calculator back to empty.
ClearGcodeList ==
    /\ gcode_list' = <<>>
    /\ save_separately_checkbox' = FALSE
    /\ current_filament_id' = None
    /\ current_multicolor_filaments' = <<>>
    /\ file_filament_mapping' = <<>>
    /\ filament_weight_input' = None
    /\ print_time_input' = None
    /\ current_price_result' = NonePrice
    /\ UNCHANGED last
    /\ UNCHANGED <<ledger, add_print_calls>>

\* execute_print, lines 1434-1453: the inputs and the selection are cleared
\* (the emptied list unticks the checkbox).
CommitCleanup ==
    /\ gcode_list' = <<>>
    /\ save_separately_checkbox' = FALSE
    /\ current_filament_id' = None
    /\ current_multicolor_filaments' = <<>>
    /\ file_filament_mapping' = <<>>
    /\ filament_weight_input' = None
    /\ print_time_input' = None
    /\ current_price_result' = NonePrice

\* execute_print stopped by a warning box, or by Cancel in the name dialog.
CommitBlocked(warning) ==
    /\ last' = [NoCall EXCEPT !.op = "execute_print", !.warning = warning]
    /\ UNCHANGED <<ledger, calculator, add_print_calls>>

\* execute_print, lines 1164-1456: the add_print calls, then the cleanup if
\* none of them raised.
CommitRun ==
    LET gcode_files == [k \in 1..Len(gcode_list) |-> gcode_list[k].name]
        save_separately == save_separately_checkbox /\ Len(gcode_files) > 1
        multi == current_multicolor_filaments # <<>> \/ file_filament_mapping # <<>>
        calls == execute_print_calls(current_filament_id,
                                     current_multicolor_filaments,
                                     file_filament_mapping, gcode_files,
                                     save_separately_checkbox,
                                     filament_weight_input, current_price_result)
        r == run_add_prints(filaments, prints, print_uuids, calls)
    IN  /\ filaments' = r.filaments
        /\ prints' = r.prints
        /\ print_uuids' = r.issued
        /\ IF r.raised = "" THEN CommitCleanup ELSE UNCHANGED calculator
        /\ last' = [NoCall EXCEPT
                       !.op = "execute_print",
                       !.raised = r.raised,
                       !.ret = (r.raised = ""),
                       !.mode = IF ~multi THEN "single"
                                ELSE IF save_separately THEN "separate"
                                ELSE "grouped",
                       !.slots = Len(current_multicolor_filaments),
                       !.groups = Len(filament_groups(current_multicolor_filaments)),
                       !.created = Len(r.prints) - Len(prints)]
        /\ UNCHANGED <<brands, brand_uuids, filament_uuids, add_print_calls>>

ExecutePrint ==
    /\ print_uuids < MaxPrints
    /\ LET warning == validate_inputs(filaments, current_filament_id,
                                      current_multicolor_filaments,
                                      filament_weight_input, print_time_input)
       IN  IF warning # "" THEN CommitBlocked(warning)
           ELSE IF current_price_result = NonePrice
           THEN CommitBlocked("calculate_first")
           ELSE IF save_separately_checkbox /\ Len(gcode_list) > 1
           THEN CommitRun
           \* the name dialog: OK or Cancel
           ELSE CommitRun \/ CommitBlocked("")

Next ==
    \/ AddFilament
    \/ DeleteFilament
    \/ UpdateFilamentWeight
    \/ AddPrint
    \/ DeletePrint
    \/ UpdatePrint

Spec == Init /\ [][Next]_vars

\* The ledger driven only through add_print, update_print and
\* delete_print(restore_weight=True), on filaments that are never deleted.
NextHistory ==
    \/ AddFilament
    \/ AddPrint
    \/ UpdatePrint
    \/ DeletePrintRestoring

SpecHistory == Init /\ [][NextHistory]_vars

\* Filaments and prints together stay under MaxObjects uuids.
StockIdsLeft == filament_uuids + print_uuids < MaxObjects

\* The ledger driven through add_filament, update_filament, add_print,
\* update_print and delete_print(restore_weight=True): no filament is deleted
\* and no weight is taken but through a history record.
NextStock ==
    \/ StockIdsLeft /\ AddFilament
    \/ UpdateFilament
    \/ StockIdsLeft /\ AddPrint
    \/ UpdatePrint
    \/ DeletePrintRestoring

SpecStock == Init /\ [][NextStock]_vars

\* ------------------------------------------------------ the price calls

\* The arguments calculate_price is called with: the quantities of a job and
\* the rates of the configuration, all non-negative as the input fields and
\* the settings dialog make them.
PriceArguments ==
    [filament_weight_g : {Zero, Rat(50, 1), Rat(100, 1)},
     material_price_per_kg : {Rat(120, 1)},
     print_time_hours : {Zero, Rat(2, 1)},
     hourly_rate : {Rat(5, 1)},
     energy_consumption_kwh : {Rat(3, 10)},
     cost_per_kwh : {Rat(4, 5)},
     margin_percent : {Zero, Rat(10, 1)},
     copies : {Zero, One, Rat(2, 1)},
     setup_fee : {Zero},
     postprocess_time_hours : {Zero, One},
     postprocess_rate_per_hour : {Rat(15, 1)},
     risk_percent : {Zero, Rat(5, 1)},
     packaging_cost : {Zero, Rat(2, 1)},
     shipping_cost : {Zero},
     min_price : {Zero, Rat(50, 1), Rat(1001, 20)},
     vat_percent : {Zero, Rat(23, 1)},
     round_to : {Zero, Rat(1, 20), One}]

\* The arguments round_price is called with.
RoundArguments ==
    [price : {Zero, Rat(1, 40), Rat(3, 40), Rat(1, 8), Rat(7, 3), Rat(3058, 125),
              Rat(5, 2), Rat(7, 2), Rat(0 - 3, 40)},
     round_to : {Rat(0 - 1, 20), Zero, Rat(1, 20), Rat(1, 10), Rat(3, 100), One}]

\* A call of the price calculator about to be made.
InitPrice ==
    /\ brands = <<>>
    /\ brand_uuids = 0
    /\ filaments = <<>>
    /\ prints = <<>>
    /\ filament_uuids = 0
    /\ print_uuids = 0
    /\ last \in {[NoCall EXCEPT !.args = a] : a \in PriceArguments}
                \cup {[NoCall EXCEPT !.args = a] : a \in RoundArguments}
    /\ InitCalculator
    /\ add_print_calls = NoCalls

CalculatePriceCall ==
    /\ last.op = ""
    /\ "filament_weight_g" \in DOMAIN last.args
    /\ last' = [last EXCEPT !.op = "calculate_price",
                            !.result = calculate_price(last.args)]
    /\ UNCHANGED <<ledger, calculator, add_print_calls>>

\* round_price, and round_price of what it returned.
RoundPriceCall ==
    /\ last.op = ""
    /\ "price" \in DOMAIN last.args
    /\ LET once == round_price(last.args.price, last.args.round_to) IN
       last' = [last EXCEPT !.op = "round_price",
                            !.result = [once |-> once,
                                        twice |-> round_price(once, last.args.round_to)]]
    /\ UNCHANGED <<ledger, calculator, add_print_calls>>

NextPrice ==
    \/ CalculatePriceCall
    \/ RoundPriceCall

SpecPrice == InitPrice /\ [][NextPrice]_vars

\* The calculator tab on a stocked inventory, with the inventory tab's and the
\* history tab's delete buttons.
NextCommit ==
    \/ SelectGcodeFiles
    \/ ToggleSaveSeparately
    \/ LoadGcodeFiles
    \/ OnFilamentChanged
    \/ TypeInputs
    \/ CalculatePrice
    \/ ExecutePrint
    \/ ClearGcodeList

SpecCommit == InitStocked /\ [][NextCommit]_vars

\* The calculator over two spools of MaxStock grams each: enough for a
\* separate-save commit to take whole grams for more than one listed file.
InitWellStocked ==
    /\ brands = <<>>
    /\ brand_uuids = 0
    /\ filaments = add_filament(brands,
                        add_filament(brands, <<>>, 1, "prusa", MaxStock, TRUE).filaments,
                        2, "PRUSA", MaxStock, TRUE).filaments
    /\ prints = <<>>
    /\ filament_uuids = MaxFilaments
    /\ print_uuids = 0
    /\ last = NoCall
    /\ InitCalculator
    /\ add_print_calls = NoCalls

SpecSeparate == InitWellStocked /\ [][NextCommit]_vars

\* ------------------------------------------------------------ the brands

BrandIds == 1..MaxBrands
\* The names typed into the brands dialog and the spool weights set there.
TypedBrandNames == {"prusa", "PRUSA", "esun"}
SpoolWeights == {DefaultSpoolWeight, DefaultSpoolWeight + MaxWeight}

AddBrand ==
    /\ brand_uuids < MaxBrands
    /\ \E name \in TypedBrandNames, spool_weight \in SpoolWeights :
        LET r == add_brand(brands, brand_uuids + 1, name, spool_weight) IN
            /\ brands' = r.brands
            /\ brand_uuids' = IF r.raised = "" THEN brand_uuids + 1 ELSE brand_uuids
            /\ last' = [NoCall EXCEPT !.op = "add_brand", !.name = name,
                                      !.raised = r.raised,
                                      !.new_id = IF r.raised = "" THEN brand_uuids + 1
                                                 ELSE None]
    /\ UNCHANGED <<filaments, prints, filament_uuids, print_uuids, calculator, add_print_calls>>

UpdateBrand ==
    /\ \E brand_id \in BrandIds, name \in TypedBrandNames, spool_weight \in SpoolWeights :
        LET r == update_brand(brands, brand_id, name, spool_weight) IN
            /\ brands' = r.brands
            /\ last' = [NoCall EXCEPT !.op = "update_brand", !.brand_id = brand_id,
                                      !.name = name, !.raised = r.raised]
    /\ UNCHANGED <<filaments, prints, brand_uuids, filament_uuids, print_uuids, calculator, add_print_calls>>

DeleteBrand ==
    /\ \E brand_id \in BrandIds :
        LET r == delete_brand(brands, filaments, brand_id) IN
            /\ brands' = r.brands
            /\ last' = [NoCall EXCEPT !.op = "delete_brand", !.brand_id = brand_id,
                                      !.ret = r.ret, !.raised = r.raised]
    /\ UNCHANGED <<filaments, prints, brand_uuids, filament_uuids, print_uuids, calculator, add_print_calls>>

\* The names the brand combo box of a filament dialog offers: get_all_brands.
get_all_brands(bs) == {bs[i].name : i \in 1..Len(bs)}

\* The brands and the filaments: the brands dialog, and filaments added and
\* edited with a brand picked from the stored ones.
NextBrands ==
    \/ AddBrand
    \/ UpdateBrand
    \/ DeleteBrand
    \/ AddFilamentOf(get_all_brands(brands))
    \/ UpdateFilamentOf(get_all_brands(brands))
    \/ DeleteFilament

SpecBrands == Init /\ [][NextBrands]_vars

\* The whole inventory: every function that writes brands, filaments or
\* prints, on a few objects.
IdsLeft == brand_uuids + filament_uuids + print_uuids < MaxObjects

NextInventory ==
    \/ IdsLeft /\ AddBrand
    \/ UpdateBrand
    \/ DeleteBrand
    \/ IdsLeft /\ AddFilament
    \/ UpdateFilament
    \/ DeleteFilament
    \/ IdsLeft /\ AddPrint
    \/ DeletePrint
    \/ UpdatePrint

SpecInventory == Init /\ [][NextInventory]_vars

\* ------------------------------------------------------ the failing writes

\* The document whose writes fail during a call, "" for none.
FailingWrites == {"", "filaments", "prints"}

\* Grams given back although the record stayed can be given back again: the
\* calls are followed while no filament holds more than MaxWeight.
WithinBounds(fs) == \A k \in 1..Len(fs) : fs[k].current_weight <= MaxWeight

AddPrintSaving ==
    /\ print_uuids < MaxPrints
    /\ \E filament_id \in FilamentIds, weight_used \in Grams, price \in AddPrices,
          failing \in FailingWrites :
        LET r == add_print_saving(filaments, prints, print_uuids + 1, filament_id,
                                  weight_used, price, <<>>, failing)
        IN  /\ filaments' = r.filaments
            /\ prints' = r.prints
            /\ print_uuids' = IF r.raised = "" THEN print_uuids + 1 ELSE print_uuids
            /\ last' = [NoCall EXCEPT !.op = "add_print",
                                      !.filament_id = filament_id,
                                      !.weight = weight_used,
                                      !.raised = r.raised,
                                      !.before = current_weight_of(filaments, filament_id)]
    /\ UNCHANGED <<brands, brand_uuids, filament_uuids, calculator, add_print_calls>>

DeletePrintSaving ==
    /\ \E print_id \in PrintIds, restore_weight \in BOOLEAN, failing \in FailingWrites :
        LET r == delete_print_saving(filaments, prints, print_id, restore_weight, failing)
            i == find_by_id(prints, print_id)
        IN  /\ WithinBounds(r.filaments)
            /\ filaments' = r.filaments
            /\ prints' = r.prints
            /\ last' = [NoCall EXCEPT !.op = "delete_print", !.print_id = print_id,
                                      !.restore_weight = restore_weight,
                                      !.ret = r.ret, !.raised = r.raised,
                                      !.old_filament_id = IF i = 0 THEN None
                                                          ELSE prints[i].filament_id,
                                      !.old_weight = IF i = 0 THEN None
                                                     ELSE prints[i].weight_used]
    /\ UNCHANGED <<brands, brand_uuids, filament_uuids, print_uuids, calculator, add_print_calls>>

UpdatePrintSaving ==
    /\ \E print_id \in PrintIds, filament_id \in FilamentIds \cup {None},
          weight_used \in Grams \cup {None}, failing \in FailingWrites :
        LET r == update_print_saving(filaments, prints, print_id, filament_id,
                                     weight_used, NonePrice, failing)
            i == find_by_id(prints, print_id)
        IN  /\ WithinBounds(r.filaments)
            /\ filaments' = r.filaments
            /\ prints' = r.prints
            /\ last' = [NoCall EXCEPT !.op = "update_print", !.print_id = print_id,
                                      !.filament_id = filament_id,
                                      !.weight = weight_used,
                                      !.ret = r.ret, !.raised = r.raised,
                                      !.old_filament_id = IF i = 0 THEN None
                                                          ELSE prints[i].filament_id,
                                      !.old_weight = IF i = 0 THEN None
                                                     ELSE prints[i].weight_used]
    /\ UNCHANGED <<brands, brand_uuids, filament_uuids, print_uuids, calculator, add_print_calls>>

\* The history functions on documents that may fail to be written.
NextSaving ==
    \/ IdsLeft /\ AddFilament
    \/ IdsLeft /\ AddPrintSaving
    \/ DeletePrintSaving
    \/ UpdatePrintSaving

SpecSaving == Init /\ [][NextSaving]_vars

\* ------------------------------------------------------ the parser calls

\* The files parse_gcode is called on.
Contents == UNION {[1..n -> Lines] : n \in 0..MaxLines}
Files == [file_path : FileNames, readable : BOOLEAN, content : Contents]

\* A call of the parser about to be made.
InitParser ==
    /\ brands = <<>>
    /\ brand_uuids = 0
    /\ filaments = <<>>
    /\ prints = <<>>
    /\ filament_uuids = 0
    /\ print_uuids = 0
    /\ last \in {[NoCall EXCEPT !.args = file] : file \in Files}
    /\ InitCalculator
    /\ add_print_calls = NoCalls

ParseGcodeCall ==
    /\ last.op = ""
    /\ last' = [last EXCEPT !.op = "parse_gcode",
                            !.result = parse_gcode(last.args)]
    /\ UNCHANGED <<ledger, calculator, add_print_calls>>

NextParser == ParseGcodeCall

SpecParser == InitParser /\ [][NextParser]_vars

\* ------------------------------------------------------------ the rates
\* calculate_price of the calculator tab for a multi-filament job
\* (src/tabs/calculator_tab.py, lines 995-1048 and 1086-1130). The materials
\* of the configuration are a sequence of [type, hourly_rate, brands], the
\* brands of a material a sequence of [key, price_per_kg], both in the order of
\* the dictionaries.

\* Index of a material type among the materials, 0 if it is not configured.
find_material(config_materials, material_type) ==
    IF \E k \in 1..Len(config_materials) : config_materials[k].type = material_type
    THEN CHOOSE k \in 1..Len(config_materials) : config_materials[k].type = material_type
    ELSE 0

\* A search for the brand that compares the keys as they are written.
find_brand_exact(brand_table, brand) ==
    IF \E k \in 1..Len(brand_table) : brand_table[k].key = brand
    THEN CHOOSE k \in 1..Len(brand_table) :
            /\ brand_table[k].key = brand
            /\ \A j \in 1..(k - 1) : brand_table[j].key # brand
    ELSE 0

\* "for key in brands.keys(): if key.upper() == brand: ... break": index of
\* the first key that is the brand in upper case, 0 if there is none.
find_brand(brand_table, brand) ==
    IF \E k \in 1..Len(brand_table) : Upper(brand_table[k].key) = brand
    THEN CHOOSE k \in 1..Len(brand_table) :
            /\ Upper(brand_table[k].key) = brand
            /\ \A j \in 1..(k - 1) : Upper(brand_table[j].key) # brand
    ELSE 0

\* A loop that lets every slot set material_data, so that the last slot's
\* material is left.
RECURSIVE multicolor_loop_last_material(_, _, _, _)
multicolor_loop_last_material(config_materials, items, k, acc) ==
    IF k > Len(items) THEN acc
    ELSE LET material_type == Upper(items[k].filament.type)
             brand == Upper(items[k].filament.brand)
             m == find_material(config_materials, material_type)
             b == find_brand(config_materials[m].brands, brand)
         IN  IF m = 0 THEN [acc EXCEPT !.warning = "material_not_found"]
             ELSE IF b = 0 THEN [acc EXCEPT !.warning = "brand_not_found_details"]
             ELSE multicolor_loop_last_material(config_materials, items, k + 1,
                    [acc EXCEPT
                        !.material_data = m,
                        !.weighted_price_sum =
                            RatAdd(@, RatMul(config_materials[m].brands[b].price_per_kg,
                                             items[k].weight)),
                        !.total_weight = RatAdd(@, items[k].weight)])

\* The loop over current_multicolor_filaments, lines 1001-1046, from slot k
\* on: acc holds total_weight, weighted_price_sum and material_data (the index
\* of the first slot's material, 0 for None); a warning ends the handler.
RECURSIVE multicolor_loop(_, _, _, _)
multicolor_loop(config_materials, items, k, acc) ==
    IF k > Len(items) THEN acc
    ELSE LET material_type == Upper(items[k].filament.type)
             brand == Upper(items[k].filament.brand)
             m == find_material(config_materials, material_type)
             b == find_brand(config_materials[m].brands, brand)
         IN  IF m = 0 THEN [acc EXCEPT !.warning = "material_not_found"]
             ELSE IF b = 0 THEN [acc EXCEPT !.warning = "brand_not_found_details"]
             ELSE multicolor_loop(config_materials, items, k + 1,
                    [acc EXCEPT
                        !.material_data = IF @ = 0 THEN m ELSE @,
                        !.weighted_price_sum =
                            RatAdd(@, RatMul(config_materials[m].brands[b].price_per_kg,
                                             items[k].weight)),
                        !.total_weight = RatAdd(@, items[k].weight)])

calculate_energy_consumption(print_time_hours, printer_power_watts, preheat_time_minutes, preheat_power_watts, copies) ==
    LET preheat_hours == RatDiv(preheat_time_minutes, Sixty)
        print_energy == RatMul(RatMul(print_time_hours, copies),
                               RatDiv(printer_power_watts, Thousand))
        preheat_energy == IF copies[1] > 0
                          THEN RatMul(preheat_hours, RatDiv(preheat_power_watts, Thousand))
                          ELSE Zero
    IN  RatAdd(print_energy, preheat_energy)

\* The configuration next to the materials: DEFAULT_CONFIG's energy, pricing
\* and advanced sections (src/utils/price_calculator.py, lines 57-75).
config_energy ==
    [cost_per_kwh |-> Rat(4, 5), printer_power_watts |-> Rat(130, 1),
     preheat_time_minutes |-> Rat(5, 1), preheat_power_watts |-> Rat(200, 1)]
config_pricing ==
    [margin_percent |-> Rat(10, 1), vat_percent |-> Rat(23, 1),
     min_price |-> Zero, round_to |-> Rat(1, 20)]
config_advanced ==
    [setup_fee |-> Zero, postprocess_rate_per_hour |-> Zero, risk_percent |-> Zero,
     packaging_cost |-> Zero, shipping_cost |-> Zero]

\* calculate_price of the tab with multicolor filaments chosen and valid
\* inputs: the warning shown and no result, or the arguments handed to
\* PriceCalculator.calculate_price and the breakdown it returns.
calculate_price_multicolor(config_materials, items, filament_weight, print_time, copies) ==
    LET loop == multicolor_loop(config_materials, items, 1,
                    [warning |-> "", total_weight |-> Zero,
                     weighted_price_sum |-> Zero, material_data |-> 0])
        arguments ==
            [filament_weight_g |-> filament_weight,
             material_price_per_kg |->
                IF loop.total_weight[1] > 0
                THEN RatDiv(loop.weighted_price_sum, loop.total_weight)
                ELSE Zero,
             print_time_hours |-> print_time,
             hourly_rate |-> config_materials[loop.material_data].hourly_rate,
             energy_consumption_kwh |->
                calculate_energy_consumption(print_time,
                    config_energy.printer_power_watts,
                    config_energy.preheat_time_minutes,
                    config_energy.preheat_power_watts, copies),
             cost_per_kwh |-> config_energy.cost_per_kwh,
             margin_percent |-> config_pricing.margin_percent,
             copies |-> copies,
             setup_fee |-> config_advanced.setup_fee,
             postprocess_time_hours |-> Zero,
             postprocess_rate_per_hour |-> config_advanced.postprocess_rate_per_hour,
             risk_percent |-> config_advanced.risk_percent,
             packaging_cost |-> config_advanced.packaging_cost,
             shipping_cost |-> config_advanced.shipping_cost,
             min_price |-> config_pricing.min_price,
             vat_percent |-> config_pricing.vat_percent,
             round_to |-> config_pricing.round_to]
    IN  IF loop.warning # ""
        THEN [warning |-> loop.warning, arguments |-> <<>>, result |-> <<>>]
        ELSE [warning |-> "", arguments |-> arguments, result |-> calculate_price(arguments)]

\* The materials of two configurations: brand keys in mixed case, a material
\* with one brand, two keys that differ in case only, a material without
\* brands.
RateTables ==
    { <<[type |-> "PLA", hourly_rate |-> Rat(5, 1),
         brands |-> <<[key |-> "Prusa", price_per_kg |-> Rat(100, 1)],
                      [key |-> "eSun", price_per_kg |-> Rat(80, 1)]>>],
        [type |-> "PETG", hourly_rate |-> Rat(11, 2),
         brands |-> <<[key |-> "PRUSA", price_per_kg |-> Rat(120, 1)]>>]>>,
      <<[type |-> "PLA", hourly_rate |-> Rat(5, 1),
         brands |-> <<[key |-> "prusa", price_per_kg |-> Rat(100, 1)],
                      [key |-> "PRUSA", price_per_kg |-> Rat(90, 1)]>>],
        [type |-> "ABS", hourly_rate |-> Rat(6, 1), brands |-> <<>>]>> }

\* The slots of the multicolor dialog: a filament (its type and brand are all
\* the handler reads) and the grams assigned to it.
Slots ==
    [filament : [type : {"PLA", "PETG", "ABS"}, brand : {"prusa", "ESUN"}],
     weight : {Zero, One, Rat(3, 2)}]
SlotLists == UNION {[1..n -> Slots] : n \in 1..MaxSlots}

\* A calculation about to be made: 3 g and 2 h typed, one copy.
InitRates ==
    /\ brands = <<>>
    /\ brand_uuids = 0
    /\ filaments = <<>>
    /\ prints = <<>>
    /\ filament_uuids = 0
    /\ print_uuids = 0
    /\ last \in {[NoCall EXCEPT !.args = [materials |-> config_materials, items |-> items]] :
                    config_materials \in RateTables, items \in SlotLists}
    /\ InitCalculator
    /\ add_print_calls = NoCalls

CalculatePriceMulticolor ==
    /\ last.op = ""
    /\ last' = [last EXCEPT
                    !.op = "calculate_price",
                    !.result = calculate_price_multicolor(last.args.materials,
                                    last.args.items, Rat(3, 1), Rat(2, 1), One)]
    /\ UNCHANGED <<ledger, calculator, add_print_calls>>

NextRates == CalculatePriceMulticolor

SpecRates == InitRates /\ [][NextRates]_vars

\* ------------------------------------------------- the interleaved calls
\* add_print (lines 388-431) taken apart at its file loads and saves, for
\* callers that run with nothing between them but the files.

\* One spool of MaxWeight grams in stock.
InitInterleaved ==
    /\ brands = <<>>
    /\ brand_uuids = 0
    /\ filaments = add_filament(brands, <<>>, 1, "prusa", MaxWeight, TRUE).filaments
    /\ prints = <<>>
    /\ filament_uuids = 1
    /\ print_uuids = 0
    /\ last = NoCall
    /\ InitCalculator
    /\ add_print_calls = NoCalls

\* Lines 402-411: get_filament_by_id loads filaments.json; the call raises when
\* the filament is not there or holds less than weight_used.
VerifyFilament(c) ==
    /\ add_print_calls[c].pc = "idle"
    /\ \E filament_id \in FilamentIds, weight_used \in Grams :
        LET i == find_by_id(filaments, filament_id)
            raised == IF i = 0 THEN "not_found"
                      ELSE IF filaments[i].current_weight < weight_used THEN "insufficient"
                      ELSE ""
        IN  add_print_calls' =
                [add_print_calls EXCEPT
                    ![c] = [@ EXCEPT !.pc = IF raised = "" THEN "verified" ELSE "done",
                                     !.filament_id = filament_id,
                                     !.weight_used = weight_used,
                                     !.raised = raised]]
    /\ UNCHANGED <<ledger, last, calculator>>

\* update_filament_weight, lines 367-378, up to its save: load_filaments, the
\* search, the comparison and the subtraction in the loaded list; False (and
\* add_print's ValueError, line 415) when the filament is not in the list or
\* holds too little.
LoadFilaments(c) ==
    /\ add_print_calls[c].pc = "verified"
    /\ LET call == add_print_calls[c]
           i == find_by_id(filaments, call.filament_id)
           ok == i # 0 /\ filaments[i].current_weight >= call.weight_used
       IN  add_print_calls' =
                [add_print_calls EXCEPT
                    ![c] = IF ok
                           THEN [call EXCEPT
                                    !.pc = "loaded",
                                    !.index = i,
                                    !.filaments = [filaments EXCEPT ![i].current_weight =
                                                        @ - call.weight_used]]
                           ELSE [call EXCEPT !.pc = "done", !.raised = "update_failed"]]
    /\ UNCHANGED <<ledger, last, calculator>>

\* Line 375: _save_json writes the loaded list over filaments.json.
SaveFilaments(c) ==
    /\ add_print_calls[c].pc = "loaded"
    /\ filaments' = add_print_calls[c].filaments
    /\ add_print_calls' = [add_print_calls EXCEPT ![c].pc = "saved"]
    /\ UNCHANGED <<brands, prints, brand_uuids, filament_uuids, print_uuids, last, calculator>>

\* Lines 418-429: the new record with its uuid4, and load_prints.
LoadPrints(c) ==
    /\ add_print_calls[c].pc = "saved"
    /\ print_uuids' = print_uuids + 1
    /\ add_print_calls' = [add_print_calls EXCEPT ![c].pc = "appended",
                                                   ![c].new_id = print_uuids + 1,
                                                   ![c].prints = prints]
    /\ UNCHANGED <<brands, filaments, prints, brand_uuids, filament_uuids, last, calculator>>

\* Lines 430-431: the loaded list with the new record is written over
\* prints.json.
SavePrints(c) ==
    /\ add_print_calls[c].pc = "appended"
    /\ LET call == add_print_calls[c] IN
       prints' = Append(call.prints,
                        [id |-> call.new_id,
                         filament_id |-> call.filament_id,
                         weight_used |-> call.weight_used,
                         price |-> <<5, 1>>,
                         gcode_file |-> <<>>])
    /\ add_print_calls' = [add_print_calls EXCEPT ![c].pc = "done"]
    /\ UNCHANGED <<brands, filaments, brand_uuids, filament_uuids, print_uuids, last, calculator>>

NextInterleaved ==
    \/ \E c \in Callers : VerifyFilament(c)
    \/ \E c \in Callers : LoadFilaments(c)
    \/ \E c \in Callers : SaveFilaments(c)
    \/ \E c \in Callers : LoadPrints(c)
    \/ \E c \in Callers : SavePrints(c)

SpecInterleaved == InitInterleaved /\ [][NextInterleaved]_vars

\* ================================================================ claims

RECURSIVE SumWeightUsed(_, _)
\* Sum of weight_used over the records of ps whose filament_id is the given one.
SumWeightUsed(ps, filament_id) ==
    IF ps = <<>> THEN 0
    ELSE (IF Head(ps).filament_id = filament_id THEN Head(ps).weight_used ELSE 0)
         + SumWeightUsed(Tail(ps), filament_id)

\* ---- C1
NonNegativeWeights ==
    \A i \in 1..Len(filaments) : filaments[i].current_weight >= 0

\* A consume (update_filament_weight or add_print) asking for more grams than
\* the filament holds is refused and leaves every weight as it was.
ConsumeRejected ==
    LET i == find_by_id(filaments, last'.filament_id) IN
    (/\ last'.op \in {"update_filament_weight", "add_print"}
     /\ i # 0
     /\ filaments[i].current_weight < last'.weight)
    => /\ filaments' = filaments
       /\ last'.op = "update_filament_weight" => last'.ret = FALSE
       /\ last'.op = "add_print" => last'.raised = "insufficient"

\* C1: no filament's current_weight is ever below 0, and a consume of more
\* grams than the filament holds is rejected and leaves current_weight unchanged.
C1_NonNegative == []NonNegativeWeights /\ [][ConsumeRejected]_vars

\* A consume of more than the filament holds has just been refused.
C1_Witness ==
    /\ last.op = "update_filament_weight"
    /\ last.ret = FALSE
    /\ find_by_id(filaments, last.filament_id) # 0
    /\ current_weight_of(filaments, last.filament_id) < last.weight

\* ---- C2
\* C2: under add_print, update_print and delete_print(restore_weight=True),
\* every filament's consumed grams (initial_weight - current_weight) equal the
\* sum of weight_used over the history records that reference it.
C2_GramsTraceable ==
    \A i \in 1..Len(filaments) :
        filaments[i].initial_weight - filaments[i].current_weight
            = SumWeightUsed(prints, filaments[i].id)

\* An edit has just succeeded and two records consume from one filament.
C2_Witness ==
    /\ last.op = "update_print" /\ last.ret
    /\ Len(prints) = 2
    /\ prints[1].filament_id = prints[2].filament_id
    /\ prints[1].weight_used > 0 /\ prints[2].weight_used > 0

\* ---- C3
\* C3: add_print(filament, g) directly followed by delete_print of the record
\* it created, with restore_weight=True, leaves the filament's current_weight
\* at the value W it had before the add_print, and the record gone.
C3_RoundTrip ==
    (/\ last.op = "delete_print" /\ last.round_trip /\ last.restore_weight
     /\ last.old_weight > 0)
    => /\ last.ret
       /\ current_weight_of(filaments, last.old_filament_id) = last.before
       /\ find_by_id(prints, last.print_id) = 0

\* Such a round trip has just ended, on a filament that held more than g.
C3_Witness ==
    /\ last.op = "delete_print" /\ last.round_trip /\ last.restore_weight
    /\ last.old_weight > 0
    /\ last.before > last.old_weight

\* ---- C4
\* C4: when update_print raises, every filament's weight and the whole
\* history are what they were before the call.
C4_UpdateAtomic ==
    [][(last'.op = "update_print" /\ last'.raised # "")
        => (filaments' = filaments /\ prints' = prints)]_vars

\* An edit that keeps the filament was refused after a restoration of more
\* than 0 grams.
C4_Witness ==
    /\ last.op = "update_print" /\ last.raised \in {"insufficient", "update_failed"}
    /\ last.old_weight > 0
    /\ last.filament_id = last.old_filament_id

\* ---- C5
\* The weights a successful edit of record p to (new_id, new_grams) must leave.
EditedWeights(fs, p, new_id, new_grams) ==
    [i \in 1..Len(fs) |->
        [fs[i] EXCEPT !.current_weight =
            @ + (IF fs[i].id = p.filament_id THEN p.weight_used ELSE 0)
              - (IF fs[i].id = new_id THEN new_grams ELSE 0)]]

UpdateReverseThenApply ==
    LET i == find_by_id(prints, last'.print_id)
        p == prints[i]
        new_id == IF last'.filament_id # None THEN last'.filament_id ELSE p.filament_id
        new_grams == IF last'.weight # None THEN last'.weight ELSE p.weight_used
        j == find_by_id(filaments, new_id)
        resulting == EditedWeights(filaments, p, new_id, new_grams)
    IN  (/\ last'.op = "update_print"
         /\ i # 0
         /\ (new_id # p.filament_id \/ new_grams # p.weight_used))
        => /\ last'.ret <=> (j # 0 /\ resulting[j].current_weight >= 0)
           /\ last'.ret =>
                /\ filaments' = resulting
                /\ prints'[i].filament_id = new_id
                /\ prints'[i].weight_used = new_grams
                /\ Len(prints') = Len(prints)
                /\ \A k \in 1..Len(prints) : k # i => prints'[k] = prints[k]

\* C5: a successful update_print that changes filament and/or grams gives the
\* old grams back to the old filament and takes the new grams from the new one
\* (same filament: before + old - new); it succeeds exactly when the new
\* filament exists and its resulting weight is >= 0; the record then holds the
\* new filament and grams, and no other filament changes.
C5_UpdateReapplies == [][UpdateReverseThenApply]_vars

\* An edit has just moved a record's grams from one filament to another
\* that still exists.
C5_Witness ==
    /\ last.op = "update_print" /\ last.ret
    /\ last.filament_id \notin {None, last.old_filament_id}
    /\ last.old_weight > 0 /\ last.weight > 0
    /\ find_by_id(filaments, last.old_filament_id) # 0

\* ---- C6
AddPrintContract ==
    LET i == find_by_id(filaments, last'.filament_id) IN
    last'.op = "add_print" =>
        /\ last'.raised = "not_found" <=> i = 0
        /\ last'.raised = "insufficient"
              <=> (i # 0 /\ filaments[i].current_weight < last'.weight)
        /\ last'.raised = "insufficient" =>
              /\ last'.available = filaments[i].current_weight
              /\ last'.requested = last'.weight
        /\ last'.raised # "" => (filaments' = filaments /\ prints' = prints)
        /\ last'.raised = "" =>
              /\ Len(prints') = Len(prints) + 1
              /\ SubSeq(prints', 1, Len(prints)) = prints
              /\ prints'[Len(prints')].id = last'.new_id
              /\ prints'[Len(prints')].filament_id = last'.filament_id
              /\ prints'[Len(prints')].weight_used = last'.weight
              /\ filaments' = [filaments EXCEPT ![i].current_weight = @ - last'.weight]

\* C6: add_print raises filament-not-found for an unknown id and
\* insufficient-weight (carrying available = current_weight and the requested
\* grams) when current_weight < grams, changing nothing; on success exactly
\* one record is appended and exactly that filament loses the grams.
C6_AddPrintErrors == [][AddPrintContract]_vars

C6_Witness ==
    /\ last.op = "add_print" /\ last.raised = "insufficient"
    /\ last.available > 0
    /\ Len(prints) > 0

\* ---- C8
DeletePrintContract ==
    LET i == find_by_id(prints, last'.print_id) IN
    last'.op = "delete_print" =>
        IF i = 0
        THEN ~last'.ret /\ filaments' = filaments /\ prints' = prints
        ELSE LET j == find_by_id(filaments, prints[i].filament_id) IN
             /\ last'.ret
             /\ prints' = SubSeq(prints, 1, i - 1) \o SubSeq(prints, i + 1, Len(prints))
             /\ filaments' = IF last'.restore_weight /\ j # 0
                             THEN [filaments EXCEPT ![j].current_weight =
                                        @ + prints[i].weight_used]
                             ELSE filaments

\* C8: delete_print of an unknown record returns False and changes nothing;
\* otherwise it removes exactly that record and returns True, adding the
\* record's weight_used to the referenced filament when restore_weight is set
\* and that filament still exists, and changing no weight otherwise.
C8_DeletePrintFrame == [][DeletePrintContract]_vars

\* A record whose filament had been deleted was deleted with restore_weight.
C8_Witness ==
    /\ last.op = "delete_print" /\ last.ret /\ last.restore_weight
    /\ last.old_weight > 0
    /\ find_by_id(filaments, last.old_filament_id) = 0
    /\ Len(filaments) > 0

\* ---- C7
\* A step of execute_print that reached its add_print calls or was stopped
\* (any other step leaves both the ledger and `last` alone).
CommitStep == last'.op = "execute_print" /\ <<last, ledger>>' # <<last, ledger>>

CommitAtomic ==
    (CommitStep /\ last'.mode \in {"grouped", "separate"} /\ last'.raised # "")
        => (filaments' = filaments /\ prints' = prints)

\* C7: a multi-filament commit (grouped or separate-save) in which an
\* add_print raises leaves every filament's current_weight and every history
\* record as they were before the commit.
C7_CommitNoPartialMutation == [][CommitAtomic]_vars

\* A grouped commit has raised after it had created a record.
C7_Witness ==
    /\ last.op = "execute_print" /\ last.mode = "grouped"
    /\ last.raised = "insufficient"
    /\ last.created > 0

\* ---- C9
\* The records a step appended to the history.
Created == SubSeq(prints', Len(prints) + 1, Len(prints'))

RECURSIVE SlotWeight(_, _)
\* The weights of the slots for which the filament was chosen, summed.
SlotWeight(items, filament_id) ==
    IF items = <<>> THEN 0
    ELSE (IF Head(items).filament.id = filament_id THEN Head(items).weight ELSE 0)
         + SlotWeight(Tail(items), filament_id)

OneRecordPerFilament ==
    (CommitStep /\ last'.mode = "grouped") =>
        /\ SubSeq(prints', 1, Len(prints)) = prints
        /\ \A i, j \in 1..Len(Created) :
              Created[i].filament_id = Created[j].filament_id => i = j
        /\ \A i \in 1..Len(Created) :
              Created[i].weight_used =
                  SlotWeight(current_multicolor_filaments, Created[i].filament_id)
                      \div UnitsPerGram
        /\ last'.ret =>
              {Created[i].filament_id : i \in 1..Len(Created)}
                = {current_multicolor_filaments[k].filament.id :
                       k \in 1..Len(current_multicolor_filaments)}

RECURSIVE SumPrice(_)
SumPrice(ps) ==
    IF ps = <<>> THEN Zero ELSE RatAdd(Head(ps).price, SumPrice(Tail(ps)))

\* The weight slots a created record stands for: its filament's slots, of the
\* whole job in a grouped commit, of the record's file in a separate-save one.
RecordWeight(record) ==
    IF last'.mode = "grouped"
    THEN SlotWeight(current_multicolor_filaments, record.filament_id)
    ELSE LET m == mapping_index(file_filament_mapping, record.gcode_file[1]) IN
         IF m = 0 THEN 0
         ELSE SlotWeight(file_filament_mapping[m].filaments, record.filament_id)

PricesProportional ==
    (CommitStep /\ last'.mode \in {"grouped", "separate"} /\ last'.ret) =>
        /\ \A i \in 1..Len(Created) :
              Created[i].price =
                  RatScale(current_price_result, RecordWeight(Created[i]),
                           SumWeight(current_multicolor_filaments))
        /\ SumPrice(Created) = current_price_result

\* C10: in a multi-filament commit that completes, every created record's
\* price is (its filament's grams / the job's total grams) * final_price, and
\* the prices of the created records sum to final_price.
C10_PricesProportional == [][PricesProportional]_vars

\* A separate-save commit has completed, and the prices of the records it
\* created sum to no final price.
C10_Witness ==
    /\ last.op = "execute_print" /\ last.ret /\ last.mode = "separate"
    /\ SumPrice(SubSeq(prints, Len(prints) - last.created + 1, Len(prints)))
          \notin FinalPrices

\* ---- C11

\* The pipeline of calculate_price written out step by step: what the
\* breakdown r must be for the arguments a.
Percent(x, percent) == RatDiv(RatMul(x, percent), Hundred)

PipelineSubtotal(a) ==
    RatAdd(RatAdd(RatAdd(RatAdd(
        RatDiv(RatMul(RatMul(a.filament_weight_g, a.copies), a.material_price_per_kg), Thousand),
        RatMul(RatMul(a.print_time_hours, a.copies), a.hourly_rate)),
        RatMul(a.energy_consumption_kwh, a.cost_per_kwh)),
        RatMul(a.postprocess_time_hours, a.postprocess_rate_per_hour)),
        a.setup_fee)

PipelineOrder(a, r) ==
    LET unclamped == RatAdd(RatAdd(RatAdd(r.risk_adjusted_cost, r.margin_amount),
                                   a.packaging_cost), a.shipping_cost)
        floor_applies == a.min_price[1] > 0 /\ RatLess(unclamped, a.min_price)
    IN  /\ r.time_cost = RatMul(RatMul(a.print_time_hours, a.copies), a.hourly_rate)
        /\ r.subtotal = PipelineSubtotal(a)
        /\ r.risk_adjusted_cost = RatAdd(r.subtotal, Percent(r.subtotal, a.risk_percent))
        /\ r.risk_amount = RatSub(r.risk_adjusted_cost, r.subtotal)
        /\ r.margin_amount = Percent(r.risk_adjusted_cost, a.margin_percent)
        /\ r.price_before_vat =
               round_price(IF floor_applies THEN a.min_price ELSE unclamped, a.round_to)
        /\ r.vat_amount = IF a.vat_percent[1] > 0
                          THEN Percent(r.price_before_vat, a.vat_percent) ELSE Zero
        /\ r.final_price = RatAdd(r.price_before_vat, r.vat_amount)

\* 100 g at 120/kg, 2 h at 5/h, 0.3 kWh at 0.8/kWh, margin 10 %, VAT 23 %,
\* rounding to 0.05, one copy, nothing else charged.
Scenario ==
    [filament_weight_g |-> Rat(100, 1), material_price_per_kg |-> Rat(120, 1),
     print_time_hours |-> Rat(2, 1), hourly_rate |-> Rat(5, 1),
     energy_consumption_kwh |-> Rat(3, 10), cost_per_kwh |-> Rat(4, 5),
     margin_percent |-> Rat(10, 1), copies |-> One, setup_fee |-> Zero,
     postprocess_time_hours |-> Zero, postprocess_rate_per_hour |-> Rat(15, 1),
     risk_percent |-> Zero, packaging_cost |-> Zero, shipping_cost |-> Zero,
     min_price |-> Zero, vat_percent |-> Rat(23, 1), round_to |-> Rat(1, 20)]

\* C11: calculate_price builds the price in a fixed order: time cost without
\* preheat; subtotal = material + time + energy + postprocess + setup fee;
\* the risk percentage on the subtotal; the margin percentage on the
\* risk-adjusted cost; packaging and shipping added; the result raised to
\* min_price and then rounded to round_to; VAT on that (none when the VAT
\* percentage is not positive); final = pre-VAT + VAT.  On the scenario the
\* subtotal is 22.24, the pre-VAT price 24.45 and the final price 30.0735.
C11_PipelineOrder ==
    last.op = "calculate_price" =>
        /\ PipelineOrder(last.args, last.result)
        /\ last.args = Scenario =>
               /\ last.result.subtotal = Rat(2224, 100)
               /\ last.result.price_before_vat = Rat(2445, 100)
               /\ last.result.final_price = Rat(300735, 10000)

\* The scenario has been priced.
C11_Witness ==
    /\ last.op = "calculate_price"
    /\ last.args = Scenario

\* ---- C12

\* The price of the breakdown r before the floor, the rounding and the VAT.
Unclamped(a, r) == RatAdd(RatAdd(r.price_before_packaging, a.packaging_cost), a.shipping_cost)

FloorApplies(a, r) == a.min_price[1] > 0 /\ RatLess(Unclamped(a, r), a.min_price)

\* C12: the minimum price is applied before the rounding and before the VAT:
\* when min_price > 0 and the computed pre-VAT price is below it, the pre-VAT
\* price returned is round_price(min_price, round_to) and the final price is
\* that times (1 + VAT %/100).
C12_MinPriceBeforeRounding ==
    (last.op = "calculate_price" /\ FloorApplies(last.args, last.result)) =>
        /\ last.result.price_before_vat =
               round_price(last.args.min_price, last.args.round_to)
        /\ last.result.final_price =
               RatMul(last.result.price_before_vat,
                      RatAdd(One, RatDiv(last.args.vat_percent, Hundred)))

\* A job priced below a minimum price of 50.05 that the rounding to whole
\* units changes, with VAT.
C12_Witness ==
    /\ last.op = "calculate_price"
    /\ FloorApplies(last.args, last.result)
    /\ last.args.min_price = Rat(1001, 20)
    /\ last.args.round_to = One
    /\ last.args.vat_percent = Rat(23, 1)
    /\ last.result.price_before_vat = Rat(50, 1)
    /\ last.result.final_price = Rat(123, 2)

\* ---- C13

\* The jobs that differ from the arguments a only by no less filament, no
\* less print time and no fewer copies.
LargerJobs(a) ==
    {[a EXCEPT !.filament_weight_g = w, !.print_time_hours = t, !.copies = c] :
        w \in {x \in {Zero, Rat(50, 1), Rat(100, 1)} : RatLeq(a.filament_weight_g, x)},
        t \in {x \in {Zero, Rat(2, 1)} : RatLeq(a.print_time_hours, x)},
        c \in {x \in {Zero, One, Rat(2, 1)} : RatLeq(a.copies, x)}}

\* C13: with non-negative inputs, final_price does not decrease when
\* filament_weight_g, print_time_hours or copies increases and everything
\* else is kept.
C13_Monotone ==
    last.op = "calculate_price" =>
        \A b \in LargerJobs(last.args) :
            RatLeq(last.result.final_price, calculate_price(b).final_price)

\* One copy of a 50 g job priced with rounding, where more filament, more
\* time and more copies each cost strictly more.
C13_Witness ==
    /\ last.op = "calculate_price"
    /\ last.args.filament_weight_g = Rat(50, 1)
    /\ last.args.print_time_hours = Zero
    /\ last.args.copies = One
    /\ last.args.round_to = Rat(1, 20)
    /\ \A b \in LargerJobs(last.args) \ {last.args} :
           RatLess(last.result.final_price, calculate_price(b).final_price)

\* ---- C14

RatAbs(p) == IF p[1] < 0 THEN <<0 - p[1], p[2]>> ELSE p

\* y is a multiple of r nearest to x, the even multiple when x lies half-way
\* between two.
NearestMultiple(x, r, y) ==
    LET k == RatDiv(y, r)
        distance == RatAbs(RatSub(x, y))
    IN  /\ k[2] = 1
        /\ RatLeq(RatAdd(distance, distance), r)
        /\ RatAdd(distance, distance) = r => k[1] % 2 = 0

\* C14: for round_to > 0, round_price gives the multiple of round_to nearest
\* to the price (a tie goes to the even quotient) and rounding the result
\* again changes nothing; for round_to <= 0 it returns the price unchanged.
C14_RoundIdempotent ==
    last.op = "round_price" =>
        IF last.args.round_to[1] > 0
        THEN /\ NearestMultiple(last.args.price, last.args.round_to, last.result.once)
             /\ last.result.twice = last.result.once
        ELSE last.result.once = last.args.price

\* A price that the rounding changed (a tie: 0.075 to 0.05 gives the even
\* quotient 2, so 0.1), rounded again.
C14_Witness ==
    /\ last.op = "round_price"
    /\ last.args.price = Rat(3, 40)
    /\ last.args.round_to = Rat(1, 20)
    /\ last.result.once = Rat(1, 10)
    /\ last.result.twice = Rat(1, 10)

\* ---- C15

\* In this step no filament that exists before and after has a smaller
\* current_weight after than before.
NoWeightDecrease ==
    \A i \in 1..Len(filaments), j \in 1..Len(filaments') :
        filaments'[j].id = filaments[i].id =>
            filaments'[j].current_weight >= filaments[i].current_weight

OnlyAddPrintDecreases == last'.op # "add_print" => NoWeightDecrease

\* C15 as stated: add_print is the only path by which a current_weight
\* decreases; no step of update_print, delete_print, update_filament,
\* add_filament, delete_filament or a brand function makes an existing
\* filament's current_weight smaller.
C15_OnlyAddPrintDecreases == [][OnlyAddPrintDecreases]_vars

DecreasingPaths == {"add_print", "update_print", "update_filament"}

\* C15 amended: add_print, update_print and update_filament are the only
\* paths by which a current_weight decreases; no step of delete_print,
\* add_filament, delete_filament, add_brand, update_brand or delete_brand
\* makes an existing filament's current_weight smaller.
C15_DecreasingPaths == [][last'.op \notin DecreasingPaths => NoWeightDecrease]_vars

\* A delete_print has given grams back to a filament that is still there.
C15_Witness ==
    /\ last.op = "delete_print"
    /\ last.ret
    /\ last.restore_weight
    /\ last.old_weight > 0
    /\ current_weight_of(filaments, last.old_filament_id) >= last.old_weight

\* ---- C16

\* A successful update_filament moves initial_weight and current_weight by
\* the same amount, so that initial_weight - current_weight is kept.
SameDelta ==
    (last'.op = "update_filament" /\ last'.raised = "") =>
        LET i == find_by_id(filaments, last'.filament_id)
            delta == filaments'[i].initial_weight - filaments[i].initial_weight
        IN  /\ filaments'[i].current_weight = filaments[i].current_weight + delta
            /\ filaments'[i].initial_weight - filaments'[i].current_weight
                   = filaments[i].initial_weight - filaments[i].current_weight

\* C16: update_filament recomputes both weights by the same delta (new net
\* weight - old initial_weight): afterwards initial_weight is the old one
\* plus delta and current_weight is the old one plus delta, so the consumed
\* amount initial_weight - current_weight is the same before and after.
C16_SameDelta == [][SameDelta]_vars

\* An update_filament has lowered the net weight of a filament by more than
\* the filament still held: the consumed amount is no longer what it was.
C16_Witness ==
    /\ last.op = "update_filament"
    /\ last.raised = ""
    /\ LET f == filaments[find_by_id(filaments, last.filament_id)] IN
        /\ last.before + (f.initial_weight - last.old_weight) < 0
        /\ f.current_weight = 0
        /\ f.initial_weight - f.current_weight # last.old_weight - last.before

\* ---- C17

\* delete_brand raises and changes nothing when a filament names the brand
\* (ignoring case), returns False and changes nothing for an unknown id, and
\* otherwise removes that brand and nothing else.
DeleteBrandContract ==
    last'.op = "delete_brand" =>
        LET i == find_by_id(brands, last'.brand_id) IN
        /\ filaments' = filaments
        /\ IF i = 0
           THEN last'.raised = "" /\ ~last'.ret /\ brands' = brands
           ELSE IF \E k \in 1..Len(filaments) :
                      Upper(filaments[k].brand) = Upper(brands[i].name)
           THEN last'.raised = "in_use" /\ brands' = brands
           ELSE /\ last'.raised = ""
                /\ last'.ret
                /\ brands' = SelectSeq(brands, LAMBDA b : b.id # last'.brand_id)
                /\ Len(brands') = Len(brands) - 1

\* Every filament's brand is the name of a stored brand, ignoring case.
BrandsExist == \A k \in 1..Len(filaments) : name_taken(brands, filaments[k].brand)

\* C17: delete_brand fails with a validation error and leaves brands and
\* filaments untouched when a filament references the brand by name
\* (ignoring case), returns False without change for an unknown id and
\* removes exactly that brand otherwise; hence, when filaments are only added
\* with existing brand names, every filament's brand exists after any
\* sequence of brand and filament operations.
C17_ReferencedBrandsExist == []BrandsExist /\ [][DeleteBrandContract]_vars

\* A brand was renamed while a filament carried its name: the filament's
\* brand is no stored brand.
C17_Witness ==
    /\ last.op = "update_brand"
    /\ last.raised = ""
    /\ \E k \in 1..Len(filaments) : ~name_taken(brands, filaments[k].brand)

\* ---- C18

\* No two stored brands have the same name, ignoring case.
UniqueNames ==
    \A i, j \in 1..Len(brands) :
        i # j => Upper(brands[i].name) # Upper(brands[j].name)

\* An add_brand with the name of a stored brand, and an update_brand of a
\* stored brand to the name of another one (ignoring case), raise and leave
\* the brands as they were.
DuplicateRejected ==
    /\ (last'.op = "add_brand" /\ name_taken(brands, last'.name)) =>
           (last'.raised = "already_exists" /\ brands' = brands)
    /\ (/\ last'.op = "update_brand"
        /\ find_by_id(brands, last'.brand_id) # 0
        /\ \E i \in 1..Len(brands) : /\ brands[i].id # last'.brand_id
                                      /\ Upper(brands[i].name) = Upper(last'.name)) =>
           (last'.raised = "already_exists" /\ brands' = brands)

\* C18: in every reachable state no two stored brands have names equal
\* ignoring case, and an add_brand or update_brand that would create such a
\* duplicate raises and leaves the brand list unchanged.
C18_UniqueBrandNames == []UniqueNames /\ [][DuplicateRejected]_vars

\* Two brands are stored and a rename of one to the other's name, written in
\* lower case, was refused.
C18_Witness ==
    /\ last.op = "update_brand"
    /\ last.raised = "already_exists"
    /\ last.name = "prusa"
    /\ Len(brands) = 2
    /\ \E i \in 1..Len(brands) : brands[i].name = "PRUSA" /\ brands[i].id # last.brand_id

\* ---- C19

\* Of the update_print call c: the filament and the grams the record is to
\* have, and the grams the filament list fs has for that consumption.
NewFilamentId(c) == IF c.filament_id # None THEN c.filament_id ELSE c.old_filament_id
NewWeightUsed(c) == IF c.weight # None THEN c.weight ELSE c.old_weight
AvailableTo(fs, c) ==
    current_weight_of(fs, NewFilamentId(c))
        + (IF c.old_filament_id = NewFilamentId(c) THEN c.old_weight ELSE 0)

\* The call c changes the consumption of a stored record, to a stored filament.
Reconsumes(fs, c) ==
    /\ c.op = "update_print"
    /\ c.old_filament_id # None
    /\ (c.old_filament_id # NewFilamentId(c) \/ c.old_weight # NewWeightUsed(c))
    /\ find_by_id(fs, NewFilamentId(c)) # 0

InsufficientExact ==
    Reconsumes(filaments, last') =>
        /\ last'.raised = "insufficient" <=>
               NewWeightUsed(last') > AvailableTo(filaments, last')
        /\ last'.raised = "insufficient" =>
               /\ last'.available = AvailableTo(filaments, last')
               /\ last'.requested = NewWeightUsed(last')

\* C19: update_print raises the insufficient-weight error exactly when the
\* new grams exceed what is available to the new consumption (the new
\* filament's current_weight before the call, plus the old record's grams
\* counted once when old and new filament are the same), and the error
\* carries that amount as 'available'.
C19_InsufficientExact == [][InsufficientExact]_vars

\* An update_print asked for more than the filament held plus the record's
\* own grams, and was not refused with the insufficient-weight error.
C19_Witness ==
    /\ Reconsumes(filaments, last)
    /\ NewWeightUsed(last) > AvailableTo(filaments, last)
    /\ last.raised = "update_failed"

\* ---- C20

\* A call of add_print, delete_print or update_print that raised has left
\* the filaments and the history as they were.
NoPartialApply ==
    (last'.op \in {"add_print", "delete_print", "update_print"} /\ last'.raised # "") =>
        (filaments' = filaments /\ prints' = prints)

\* C20: if add_print, delete_print or update_print raises for any reason,
\* a failed write of the history after the filaments were written included,
\* the filament weights and the history after the call are what they were
\* before the call.
C20_NoPartialApply == [][NoPartialApply]_vars

\* An add_print whose history write failed: it raised, no record was added,
\* and the filament holds fewer grams than the call read.
C20_Witness ==
    /\ last.op = "add_print"
    /\ last.raised = "write_failed"
    /\ prints = <<>>
    /\ current_weight_of(filaments, last.filament_id) = last.before - last.weight
    /\ last.weight > 0

\* ---- C21
\* The step of the try block that raised on a file: "open" (the file could
\* not be read), "time" or "filament" (a captured string was no number), ""
\* when nothing raised.
RaisedIn(file) ==
    LET binary == is_bgcode(file.file_path)
        time == extract_time(binary, file.content, new_result)
        timed == filename_time_fallback(time.result, file.file_path)
    IN  IF ~file.readable THEN "open"
        ELSE IF time.raised THEN "time"
        ELSE IF extract_filament(binary, file.content, timed).raised THEN "filament"
        ELSE ""

\* The time the content of a file gave before the try block raised: none
\* (0.0) unless the time step had completed.
TimeExtracted(file) ==
    IF RaisedIn(file) = "filament"
    THEN extract_time(is_bgcode(file.file_path), file.content, new_result).result.time_hours
    ELSE Zero

\* C21: parse_gcode never raises and its result always has time_hours,
\* filament_weight_g and material_type; when opening the file or converting a
\* captured number raised, the time already extracted is kept, a time still
\* 0.0 is taken from the file name, and the weight and the material stay 0.0
\* and "".
C21_NeverRaises ==
    last.op = "parse_gcode" =>
        LET file == last.args
            result == last.result.result
        IN  /\ ~last.result.raised
            /\ {"time_hours", "filament_weight_g", "material_type"} \subseteq DOMAIN result
            /\ RaisedIn(file) # "" =>
                /\ result.time_hours =
                        IF TimeExtracted(file) # Zero THEN TimeExtracted(file)
                        ELSE _parse_filename_time(file.file_path)
                /\ result.filament_weight_g = Zero
                /\ result.material_type = ""
                /\ DOMAIN result = {"time_hours", "filament_weight_g", "material_type"}

\* A weight that is no number stopped the parse after ";TIME:5400" had given
\* 1.5 hours: the 1.5 hours are returned, not the 2.6 of the file name.
C21_Witness ==
    /\ last.op = "parse_gcode"
    /\ last.args.file_path = "part_2h36m.gcode"
    /\ RaisedIn(last.args) = "filament"
    /\ ~last.result.raised
    /\ last.result.result.time_hours = Rat(3, 2)
    /\ last.result.result.filament_weight_g = Zero

\* ---- C22
\* The time patterns of a file's path through the parser.
TimePatterns(file) ==
    IF is_bgcode(file.file_path) THEN binary_time_patterns ELSE text_time_patterns

\* What the first time pattern with a match captured in a file, NoMatch when
\* no time pattern has a match.
FirstTimeMatch(file) ==
    IF first_match(TimePatterns(file), file.content) = 0 THEN NoMatch
    ELSE re_search(TimePatterns(file)[first_match(TimePatterns(file), file.content)],
                   file.content)

\* The capture is a number of seconds or milliseconds, or hours, minutes and
\* seconds: float() and int() take it.
TimeConverts(file) ==
    /\ FirstTimeMatch(file) # NoMatch
    /\ Len(FirstTimeMatch(file)) = 1 => ~float(FirstTimeMatch(file)[1]).raised

\* The hours the first time pattern with a match stands for: a single value
\* is seconds, or milliseconds when it is above 10000 in a .bgcode file; three
\* values are hours, minutes and seconds.
ContentTime(file) ==
    LET match == FirstTimeMatch(file)
        value == float(match[1]).value
    IN  IF Len(match) = 1
        THEN IF is_bgcode(file.file_path) /\ RatLess(Rat(10000, 1), value)
             THEN RatScale(value, 1, 3600000)
             ELSE RatScale(value, 1, 3600)
        ELSE RatAdd(Rat(int_or_0(match[1]), 1),
                    RatAdd(Rat(int_or_0(match[2]), 60), Rat(int_or_0(match[3]), 3600)))

\* The hours in a file name: 2.6 for the names with 2h36m, 0.0 for the others.
FilenameTime(file_path) ==
    IF file_path \in {"part_2h36m.gcode", "part_2h36m.bgcode"} THEN Rat(13, 5) ELSE Zero

FilamentPatterns(file) ==
    IF is_bgcode(file.file_path) THEN binary_filament_patterns ELSE text_filament_patterns

\* The first filament pattern with a match in a file, 0 when there is none,
\* and what it captured.
FirstFilamentPattern(file) == first_match(FilamentPatterns(file), file.content)
FilamentCapture(file) ==
    re_search(FilamentPatterns(file)[FirstFilamentPattern(file)], file.content)[1]

\* The weight step is reached and its capture is made of numbers.
WeightConverts(file) ==
    /\ file.readable
    /\ RaisedIn(file) = ""
    /\ FirstFilamentPattern(file) # 0

\* The text patterns that capture a length in meters: ";Filament used: 12.34m"
\* and ";Filament length: 12.34m".
InMeters(file) ==
    /\ ~is_bgcode(file.file_path)
    /\ FirstFilamentPattern(file) \in {4, 7}

\* The line of a multicolor file.
MulticolorLine == "; total filament weight [g] : 30.98,1.12"

\* C23 as stated, in its example: a content with 'total filament weight [g] :
\* 30.98,1.12' gives the weights [30.98, 1.12] and the total 31.10.
C23_ExampleSum ==
    (/\ last.op = "parse_gcode"
     /\ WeightConverts(last.args)
     /\ \E i \in 1..Len(last.args.content) : last.args.content[i] = MulticolorLine) =>
        /\ last.result.result.filament_weights_g = <<Rat(3098, 100), Rat(112, 100)>>
        /\ last.result.result.filament_weight_g = Rat(3110, 100)

\* C23, amended: when the first matching filament pattern captures a list
\* with commas, filament_weights_g is the list of its values in order and
\* filament_weight_g their sum ('total filament weight [g] : 30.98,1.12' gives
\* [30.98, 1.12] and 32.10); that pattern comes before every single-value
\* pattern, so its line decides wherever it stands; a capture without a comma
\* leaves filament_weights_g absent and filament_weight_g is the value, in
\* grams as it is and in meters times 2.7.
C23_Multicolor ==
    (last.op = "parse_gcode" /\ WeightConverts(last.args)) =>
        LET file == last.args
            result == last.result.result
            parts == split(FilamentCapture(file))
        IN  /\ (\E i \in 1..Len(file.content) : file.content[i] = MulticolorLine) =>
                /\ FirstFilamentPattern(file) = 1
                /\ "filament_weights_g" \in DOMAIN result
                /\ result.filament_weights_g = <<Rat(3098, 100), Rat(112, 100)>>
                /\ result.filament_weight_g = Rat(3210, 100)
            /\ Len(parts) > 1 =>
                /\ "filament_weights_g" \in DOMAIN result
                /\ Len(result.filament_weights_g) = Len(parts)
                /\ \A i \in 1..Len(parts) :
                        result.filament_weights_g[i] = float(parts[i]).value
                /\ result.filament_weight_g = sum(result.filament_weights_g)
            /\ Len(parts) = 1 =>
                /\ "filament_weights_g" \notin DOMAIN result
                /\ result.filament_weight_g =
                        IF InMeters(file)
                        THEN RatScale(float(parts[1]).value, 27, 10)
                        ELSE float(parts[1]).value

\* A file with a single-value line first and the multicolor line second: the
\* two weights are returned, and 32.10 g as their sum, not 35.79 g.
C23_Witness ==
    /\ last.op = "parse_gcode"
    /\ last.args.readable
    /\ last.args.content = <<"; filament used [g] = 35.79", MulticolorLine>>
    /\ last.result.result.filament_weights_g = <<Rat(1549, 50), Rat(28, 25)>>
    /\ last.result.result.filament_weight_g = Rat(321, 10)

\* ---- C24
\* The spool in stock before the calls.
Stock == add_filament(<<>>, <<>>, 1, "prusa", MaxWeight, TRUE).filaments

\* What a history says: for each record, in order, the filament and the grams.
Records(ps) == [k \in 1..Len(ps) |-> <<ps[k].filament_id, ps[k].weight_used>>]

\* The ledger after the calls of the callers order[k], order[k + 1], ... run
\* one after the other on the lists fs and ps.
RECURSIVE SerialRun(_, _, _, _)
SerialRun(order, k, fs, ps) ==
    IF k > Len(order) THEN [filaments |-> fs, records |-> Records(ps)]
    ELSE LET call == add_print_calls[order[k]]
             r == add_print(fs, ps, Len(ps) + 1, call.filament_id, call.weight_used,
                            <<5, 1>>, <<>>)
         IN  SerialRun(order, k + 1, r.filaments, r.prints)

\* The orders the callers can be put in.
Orders == {order \in [1..MaxCallers -> Callers] :
                \A j, k \in 1..MaxCallers : j # k => order[j] # order[k]}

AllDone == \A c \in Callers : add_print_calls[c].pc = "done"

\* C24: when the add_print calls of the callers, interleaved at their file
\* loads and saves, have all returned, the filament weights and the history
\* are those some serial execution of the same calls leaves.
C24_Serializable ==
    AllDone =>
        \E order \in Orders :
            [filaments |-> filaments, records |-> Records(prints)]
                = SerialRun(order, 1, Stock, <<>>)

\* Two calls of 1 g each on the spool of 2 g have both returned without an
\* error and both records are in the history, yet the spool holds 1 g: a gram
\* of the history was never deducted.
C24_Witness ==
    /\ AllDone
    /\ \A c \in Callers : add_print_calls[c].raised = "" /\ add_print_calls[c].weight_used = 1
    /\ Records(prints) = <<<<1, 1>>, <<1, 1>>>>
    /\ filaments[1].initial_weight = 2
    /\ filaments[1].current_weight = 1

\* ---- C25
\* The rate table of a slot's material (the entry of the material whose type
\* is the filament's type in upper case), and the slot's price per kg in it:
\* that of the first brand key equal to the filament's brand when both are put
\* in upper case.
RateTableOf(slot) ==
    CHOOSE entry \in {last.args.materials[k] : k \in 1..Len(last.args.materials)} :
        entry.type = Upper(slot.filament.type)
MatchingKeys(slot) ==
    {k \in 1..Len(RateTableOf(slot).brands) :
        Upper(RateTableOf(slot).brands[k].key) = Upper(slot.filament.brand)}
PricePerKg(slot) ==
    RateTableOf(slot).brands[CHOOSE k \in MatchingKeys(slot) :
                                \A j \in MatchingKeys(slot) : k <= j].price_per_kg

\* The slot's material is configured and its brand has a match.
Resolves(slot) ==
    /\ \E k \in 1..Len(last.args.materials) :
            last.args.materials[k].type = Upper(slot.filament.type)
    /\ MatchingKeys(slot) # {}

\* Sum of weight_i, and of price_per_kg_i * weight_i, over the slots from k on.
RECURSIVE TotalWeight(_, _)
TotalWeight(items, k) ==
    IF k > Len(items) THEN Zero ELSE RatAdd(items[k].weight, TotalWeight(items, k + 1))
RECURSIVE WeightedPrices(_, _)
WeightedPrices(items, k) ==
    IF k > Len(items) THEN Zero
    ELSE RatAdd(RatMul(PricePerKg(items[k]), items[k].weight), WeightedPrices(items, k + 1))

\* C25: for a multi-filament job the price handed to the price calculator is
\* sum(price_per_kg_i * weight_i) / sum(weight_i) over the slots, each price
\* found by a brand match that ignores case in the rate table of the slot's
\* material, and the hourly rate is that of the first slot's material; when a
\* slot's material is not configured or its brand has no match there is a
\* warning and no breakdown.
C25_WeightedAverage ==
    last.op = "calculate_price" =>
        LET items == last.args.items IN
        IF \A k \in 1..Len(items) : Resolves(items[k])
        THEN /\ last.result.warning = ""
             /\ TotalWeight(items, 1) # Zero =>
                    RatMul(last.result.arguments.material_price_per_kg, TotalWeight(items, 1))
                        = WeightedPrices(items, 1)
             /\ last.result.arguments.hourly_rate = RateTableOf(items[1]).hourly_rate
             /\ last.result.result.material_cost =
                    RatScale(RatMul(last.result.arguments.material_price_per_kg, Rat(3, 1)), 1, 1000)
             /\ last.result.result.time_cost =
                    RatMul(Rat(2, 1), RateTableOf(items[1]).hourly_rate)
        ELSE /\ last.result.warning # ""
             /\ last.result.result = <<>>

\* 1 g of PETG from "prusa" (120 per kg under the key "PRUSA", 5.5 per hour)
\* and 1.5 g of PLA from "ESUN" (80 per kg under the key "eSun", 5 per hour):
\* the price is (120 * 1 + 80 * 1.5) / 2.5 = 96 per kg and the hourly rate the
\* 5.5 of the first slot, which holds the smaller weight.
C25_Witness ==
    /\ last.op = "calculate_price"
    /\ Len(last.args.items) = 2
    /\ last.args.items[1].filament = [type |-> "PETG", brand |-> "prusa"]
    /\ last.args.items[2].filament = [type |-> "PLA", brand |-> "ESUN"]
    /\ last.args.items[1].weight = One
    /\ last.args.items[2].weight = Rat(3, 2)
    /\ last.result.warning = ""
    /\ last.result.arguments.material_price_per_kg = Rat(96, 1)
    /\ last.result.arguments.hourly_rate = Rat(11, 2)

\* ---- C26
\* The stored brands whose name is the given one but for the case of its
\* letters.
BrandsNamed(brand) == {k \in 1..Len(brands) : Upper(brands[k].name) = Upper(brand)}

\* The filament the last add_filament or update_filament wrote.
Written ==
    filaments[find_by_id(filaments,
                         IF last.op = "add_filament" THEN last.new_id ELSE last.filament_id)]

\* An add_filament or update_filament that succeeded, with a weight that
\* includes the spool and a brand name a stored brand bears.
WithStoredBrand ==
    /\ last.op \in {"add_filament", "update_filament"}
    /\ last.raised = ""
    /\ ~last.args.without_spool
    /\ BrandsNamed(last.args.brand) # {}

\* C26: add_filament and update_filament, given a weight with the spool and a
\* brand name that is a stored brand's name up to letter case, store that
\* brand's spool_weight on the filament and the given weight less that
\* spool_weight as its net weight.
C26_BrandSpoolWeight ==
    WithStoredBrand =>
        \A k \in BrandsNamed(last.args.brand) :
            /\ Written.spool_weight = brands[k].spool_weight
            /\ Written.initial_weight = last.weight - brands[k].spool_weight

\* The brand PRUSA is stored with a spool of 152 g; add_filament("prusa", 152 g
\* with the spool) has stored a filament of brand PRUSA with a spool of 150 g
\* and 2 g of filament.
C26_Witness ==
    /\ last.op = "add_filament"
    /\ last.raised = ""
    /\ last.args = [brand |-> "prusa", without_spool |-> FALSE]
    /\ last.weight = 152
    /\ \E k \in 1..Len(brands) : brands[k].name = "PRUSA" /\ brands[k].spool_weight = 152
    /\ Written.brand = "PRUSA"
    /\ Written.spool_weight = DefaultSpoolWeight
    /\ Written.initial_weight = 2

\* ---- C27
\* What a price is calculated for: the filament or the slots chosen, the
\* weight and the time.
Quoted ==
    <<current_filament_id, current_multicolor_filaments, filament_weight_input,
      print_time_input>>

\* A step that changes the selection or the inputs while a result is stored
\* leaves no result.
ChangeInvalidates ==
    (Quoted' # Quoted /\ current_price_result # NonePrice) =>
        current_price_result' = NonePrice

\* C27: the stored price result is the one calculated for the filament(s),
\* weight and time now in the tab: every later change of the selection or of
\* the inputs invalidates it.
C27_ChangeInvalidates == [][ChangeInvalidates]_vars

\* A result is stored and no filament is chosen: calculate_price stores a
\* result only with a filament chosen, so the result is from before the
\* selection was changed.
C27_Witness ==
    /\ current_price_result # NonePrice
    /\ current_filament_id = None
    /\ current_multicolor_filaments = <<>>

\* ---- C28
\* The weight assigned to a filament in the file-to-filament mapping, summed
\* over the files, in 1/UnitsPerGram g.
Assigned(filament_id) ==
    SlotWeight(Concat([k \in 1..Len(file_filament_mapping) |->
                          file_filament_mapping[k].filaments]), filament_id)

\* The grams a step took from a filament.
Deducted(filament_id) ==
    current_weight_of(filaments, filament_id)
        - current_weight_of(filaments', filament_id)

SeparateStep ==
    CommitStep /\ last'.mode = "separate" /\ file_filament_mapping # <<>>

DeductedWithinAssigned ==
    SeparateStep =>
        \A i \in 1..Len(filaments) :
            Deducted(filaments[i].id) * UnitsPerGram <= Assigned(filaments[i].id)

\* C28: the grams one separate-save commit deducts from a filament never
\* exceed the grams assigned to that filament in the file-to-filament mapping,
\* summed over the files, also when a listed file yielded no weights and is
\* absent from the mapping.
C28_DeductedWithinAssigned == [][DeductedWithinAssigned]_vars

\* A separate-save commit has completed and created a record that takes whole
\* grams for the listed file that yielded no weights.
C28_Witness ==
    /\ last.op = "execute_print" /\ last.ret /\ last.mode = "separate"
    /\ \E i \in (Len(prints) - last.created + 1)..Len(prints) :
          /\ prints[i].gcode_file = <<"c.gcode">>
          /\ prints[i].weight_used > 0

\* ---- C29
\* C29: when min_price > 0 the price_before_vat that calculate_price returns
\* is never below min_price, whatever round_to is: the rounding after the
\* floor does not take the price back under the minimum.
C29_NeverBelowMinimum ==
    (last.op = "calculate_price" /\ last.args.min_price[1] > 0) =>
        ~RatLess(last.result.price_before_vat, last.args.min_price)

\* A call with a minimum price has returned a pre-VAT price under the
\* minimum, with no VAT.
C29_Witness ==
    /\ last.op = "calculate_price"
    /\ last.args.min_price[1] > 0
    /\ last.args.vat_percent = Zero
    /\ RatLess(last.result.price_before_vat, last.args.min_price)

\* ---- C30
\* C30: in every state reached through add_filament, add_print, update_print,
\* delete_print(restore_weight=True) and update_filament with non-negative
\* gram arguments, every filament has 0 <= current_weight <= initial_weight:
\* what remains never exceeds the spool's net content.
C30_WithinNetContent ==
    \A i \in 1..Len(filaments) :
        /\ 0 <= filaments[i].current_weight
        /\ filaments[i].current_weight <= filaments[i].initial_weight

\* The record of a print has been deleted with its grams given back, and the
\* filament now holds more than its net content.
C30_Witness ==
    /\ last.op = "delete_print" /\ last.restore_weight /\ last.ret
    /\ last.old_weight > 0
    /\ \E i \in 1..Len(filaments) :
          /\ filaments[i].id = last.old_filament_id
          /\ filaments[i].current_weight > filaments[i].initial_weight

====
